---- MODULE Spec2Model ----
(***************************************************************************)
(* Schema-migration runner of the FinContas worker (src/worker/database):  *)
(* the bundled migration list MIGRATIONS, applyMigration, the ledger table *)
(* schema_migrations, ensureDatabaseSchema with its cached promise, and    *)
(* the worker middleware that awaits it before every route handler.        *)
(*                                                                         *)
(* Text is modelled as tuples of one-character strings (file paths,        *)
(* migration ids) or of word tokens (SQL statements).  One action is one   *)
(* turn of the JavaScript event loop: the arrival of a database answer and  *)
(* the synchronous code that runs up to the next await.                    *)
(*                                                                         *)
(* The second part is the REST API behind that middleware (SpecApi):       *)
(* authMiddleware and getUserId, the update/delete routes by id, the       *)
(* read-only routes, and the Pluggy routes status, add-connection and      *)
(* sync, over the rows of the tables of 0001_initial_schema.sql.           *)
(***************************************************************************)
EXTENDS Integers, Sequences, FiniteSets, Bags, TLC

\* ------------------------------------------------------------------ bounds
MaxRequests == 2
MaxFailures == 2
MaxRestarts == 1

\* ------------------------------------------------------------ text helpers
NoId == <<>>

ToLowerChar(c) ==
  CASE c = "S" -> "s" [] c = "Q" -> "q" [] c = "L" -> "l" [] OTHER -> c

ToUpperWord(w) ==
  CASE w = "pragma" -> "PRAGMA" [] w = "create" -> "CREATE" [] OTHER -> w

\* value.replace(/\\/g, '/')
normalizePathSeparators(value) ==
  [i \in 1..Len(value) |-> IF value[i] = "\\" THEN "/" ELSE value[i]]

\* segments[segments.length - 1] of normalized.split('/')
LastSegment(normalized) ==
  LET slashes == {i \in 1..Len(normalized) : normalized[i] = "/"}
      last == IF slashes = {} THEN 0
              ELSE CHOOSE i \in slashes : \A j \in slashes : j <= i
  IN SubSeq(normalized, last + 1, Len(normalized))

\* fileName.replace(/\.sql$/i, '')
StripSqlSuffix(fileName) ==
  LET n == Len(fileName) IN
  IF /\ n >= 4
     /\ fileName[n - 3] = "."
     /\ ToLowerChar(fileName[n - 2]) = "s"
     /\ ToLowerChar(fileName[n - 1]) = "q"
     /\ ToLowerChar(fileName[n]) = "l"
  THEN SubSeq(fileName, 1, n - 4)
  ELSE fileName

extractMigrationId(filePath) ==
  StripSqlSuffix(LastSegment(normalizePathSeparators(filePath)))

\* Collation weight of the characters that occur in the ids of the model:
\* punctuation sorts before digits, digits before letters.
CollationRank(c) ==
  CASE c = "_" -> 1 [] c = "1" -> 2 [] c = "2" -> 3 [] c = "a" -> 4 [] OTHER -> 5

RECURSIVE localeCompare(_, _)
localeCompare(left, right) ==
  IF left = <<>> /\ right = <<>> THEN 0
  ELSE IF left = <<>> THEN -1
  ELSE IF right = <<>> THEN 1
  ELSE IF CollationRank(Head(left)) < CollationRank(Head(right)) THEN -1
  ELSE IF CollationRank(Head(left)) > CollationRank(Head(right)) THEN 1
  ELSE localeCompare(Tail(left), Tail(right))

\* ----------------------------------------------------- bundled SQL sources
\* A source is a file path and its SQL text; the text is a sequence of
\* semicolon-separated pieces, each a tuple of word tokens (<<>> is a piece
\* that is blank after trimming).
PragmaFk == <<"pragma", "foreign_keys">>
CreateT1 == <<"CREATE", "t1">>
CreateT2 == <<"CREATE", "t2">>
CreateT3 == <<"CREATE", "t3">>
Blank == <<>>

SrcOne == [filePath |-> <<"m", "/", "1", ".", "s", "q", "l">>,
           sql |-> <<PragmaFk, CreateT1>>]
SrcTwo == [filePath |-> <<"m", "/", "2", ".", "s", "q", "l">>,
           sql |-> <<CreateT2, Blank, CreateT3>>]
SrcOneAgain == [filePath |-> <<"m", "\\", "1", ".", "S", "Q", "L">>,
                sql |-> <<CreateT3>>]
SrcBlank == [filePath |-> <<"m", "/", "a", ".", "s", "q", "l">>,
             sql |-> <<Blank>>]
SrcTwelve == [filePath |-> <<"m", "/", "1", "2", ".", "s", "q", "l">>,
              sql |-> <<CreateT1>>]
SrcOneUnder == [filePath |-> <<"m", "/", "1", "_", ".", "s", "q", "l">>,
                sql |-> <<CreateT2>>]

\* The enumeration orders Object.entries(MIGRATION_SOURCES) can produce.
SourceEnumerations ==
  { <<SrcOne, SrcTwo>>,
    <<SrcTwo, SrcOne>>,
    <<SrcTwo, SrcBlank, SrcOne>>,
    <<SrcOne, SrcTwo, SrcOneAgain>>,
    <<SrcOneAgain, SrcOne>>,
    <<SrcTwelve, SrcOneUnder>>,
    <<SrcBlank>> }

\* pushStatement: a piece that is empty after trimming is dropped.
splitSqlStatements(sql) == SelectSeq(sql, LAMBDA piece : piece # <<>>)

\* ------------------------------------------------------ building MIGRATIONS
RECURSIVE InsertById(_, _)
InsertById(entry, sorted) ==
  IF sorted = <<>> THEN <<entry>>
  ELSE IF localeCompare(entry.id, Head(sorted).id) <= 0 THEN <<entry>> \o sorted
  ELSE <<Head(sorted)>> \o InsertById(entry, Tail(sorted))

RECURSIVE StableSortById(_)
StableSortById(entries) ==
  IF entries = <<>> THEN <<>>
  ELSE InsertById(Head(entries), StableSortById(Tail(entries)))

\* Mutant: the staged list is used in enumeration order.
SortStaged_Unsorted(staged) == staged

\* staged.sort((left, right) => left.id.localeCompare(right.id))
SortStaged(staged) == StableSortById(staged)

Staged(sources) ==
  SortStaged([i \in 1..Len(sources) |->
               [id |-> extractMigrationId(sources[i].filePath),
                statements |-> splitSqlStatements(sources[i].sql),
                filePath |-> sources[i].filePath]])

\* Mutant: the duplicate check is missing.
DuplicateDetected_Never(staged) == FALSE

\* seen.has(entry.id) for some entry of the loop
DuplicateDetected(staged) ==
  \E i, j \in 1..Len(staged) : i < j /\ staged[i].id = staged[j].id

\* The value of the MIGRATIONS initializer: the list, or the error it throws.
BuildMigrations(sources) ==
  LET staged == Staged(sources)
      withStatements == SelectSeq(staged, LAMBDA e : e.statements # <<>>)
      normalized == [i \in 1..Len(withStatements) |->
                      [id |-> withStatements[i].id,
                       statements |-> withStatements[i].statements]]
  IN IF DuplicateDetected(staged) THEN [error |-> "duplicate", list |-> <<>>]
     ELSE IF normalized = <<>> THEN [error |-> "empty", list |-> <<>>]
     ELSE [error |-> "none", list |-> normalized]

\* -------------------------------------------------------------------- state
VARIABLES
  sources,            \* MIGRATION_SOURCES in enumeration order
  workerState,        \* "unloaded", "loaded", or "failed" (module threw on load)
  MIGRATIONS,         \* the list built at module load
  schemaInitPromise,  \* 0 for null, else the index in passes of the promise
  passes,             \* the passes started by this process, each with its promise
  requests,           \* the HTTP requests and where each is in the middleware
  epoch,              \* how often the process has been restarted
  ledgerTable,        \* schema_migrations exists
  ledger,             \* ids of the rows of schema_migrations
  committed,          \* bag of the committed transactional statements
  tx,                 \* the connection's transaction: open, buffered effects
  execCount,          \* bag of the statements this process has run
  insertCount,        \* bag of the ids this process has tried to insert
  failures            \* database failures injected so far

migrationVars ==
  <<sources, workerState, MIGRATIONS, schemaInitPromise, passes, requests,
    epoch, ledgerTable, ledger, committed, tx, execCount, insertCount,
    failures>>

dbVars == <<ledgerTable, ledger, committed, tx>>
countVars == <<execCount, insertCount>>
loadVars == <<sources, workerState, MIGRATIONS, epoch>>

Requests == 1..MaxRequests

NoTransaction == [open |-> FALSE, buf |-> EmptyBag, rows |-> {}]

NewRequest == [pc |-> "new", promise |-> 0, call |-> "none", ensure |-> "none",
               handlerRan |-> FALSE, status |-> 0]

NoStatement == <<>>

\* calls: the database calls the current applyMigration has made, in order.
\* lastStatement: the variable of applyMigration.  failedStmt: the call that
\* failed.  errId, errStmt: the migration id and the statement that the
\* message of the error the pass rejects with contains.
NewPass == [pc |-> "ensureTable", applied |-> {}, idx |-> 0, k |-> 0,
            log |-> <<>>, failedId |-> NoId, calls |-> <<>>,
            lastStatement |-> NoStatement, failedStmt |-> NoStatement,
            errId |-> NoId, errStmt |-> NoStatement]

\* ------------------------------------------------- REST API: data and state
\* The worker's routes run after the schema middleware let the request
\* through.  The state below is what they work on: the rows of the
\* application tables (0001_initial_schema.sql) and the requests in flight.
MaxApiRequests == 2
MaxFaults == 1

VARIABLES
  api,        \* the API requests and where each is in authMiddleware/handler
  db,         \* the rows of the application tables, by table name
  sequence,   \* AUTOINCREMENT: the last id handed out, by table name
  apiFaults   \* failures injected so far (database, Pluggy API, Clerk)

apiVars == <<api, db, sequence, apiFaults>>

\* ------------------------------------------------------------ further state
\* Two worker processes on one database (SpecTwo).
VARIABLES
  processes,   \* per process: its schemaInitPromise, its pass, its connection
  ledgerRows   \* bag of the ids of the committed rows of schema_migrations

twoVars == <<processes, ledgerRows>>

Workers == {1, 2}

NewProcess == [promise |-> "none", pass |-> [NewPass EXCEPT !.pc = "idle"],
               tx |-> NoTransaction]

TwoIdle ==
  /\ processes = [w \in Workers |-> NewProcess]
  /\ ledgerRows = EmptyBag

\* Requests of several users on the application tables (SpecIso).
VARIABLES
  tables,    \* the rows of accounts, credit_cards, budgets, transactions,
             \* webhook_logs
  last,      \* the request handled last: user, route, response
  handled    \* requests handled so far

isoVars == <<tables, last, handled>>

\* The front end's apiFetch and its Clerk token cache (SpecFetch).
VARIABLES
  cachedClerkToken,       \* the cached token, or none
  inflightTokenPromise,   \* 0 for null, else the index of a getToken call
  getTokenCalls,          \* the session getToken() calls started
  fetches                 \* the apiFetch calls and where each is

fetchVars == <<cachedClerkToken, inflightTokenPromise, getTokenCalls, fetches>>

\* upsertUserConfigValue calls on one (user_id, config_key) (SpecConfig).
VARIABLES
  userConfigs,   \* bag of the rows of user_configs
  upserts        \* the calls and where each is

configVars == <<userConfigs, upserts>>

\* splitSqlStatements applied to a text (SpecSplit).
VARIABLES
  sql,            \* the text of a file, as its statements and separators
  statements,     \* what splitSqlStatements returned
  splitReturned   \* whether it has run

splitVars == <<sql, statements, splitReturned>>

\* NetworkStatusProvider (SpecNetwork).
VARIABLES
  networkState,      \* the provider's state
  navigatorOnLine,   \* navigator.onLine: "null" when undefined
  dateNow            \* Date.now()

netVars == <<networkState, navigatorOnLine, dateNow>>

extraVars == <<twoVars, isoVars, fetchVars, configVars, splitVars, netVars>>

otherVars == <<apiVars, extraVars>>

vars == <<migrationVars, apiVars, extraVars>>

ApiRequests == 1..MaxApiRequests

NoUser == ""
Users == {"u1", "u2"}
NoItem == ""
Items == {"i1", "i2"}
NoTable == ""
NoTransactionId == ""

\* What clerkClient.authenticateRequest makes of the request's bearer token:
\* signed out, signed in as a user, or signed in without a user id.
RequestStates ==
  {[isSignedIn |-> FALSE, userId |-> NoUser],
   [isSignedIn |-> TRUE, userId |-> NoUser]}
  \cup {[isSignedIn |-> TRUE, userId |-> u] : u \in Users}

\* The X-User-ID header of a request: absent, or naming a user.
LegacyHeaders == {NoUser, "u1"}

\* Tables whose update/delete routes test result.success, and those whose
\* routes test result.meta.changes.
SuccessChecked ==
  {"expenses", "credit_cards", "transaction_categories", "pluggy_connections"}
ChangesChecked == {"accounts", "transactions", "budgets", "goals"}

\* Tables the worker has only a GET route for.
ReadOnlyTables == {"investments", "loans", "credit_card_bills"}

\* FOREIGN KEY(account_id) REFERENCES accounts(id) ON DELETE SET NULL
AccountReferrers ==
  {"transactions", "budgets", "goals", "credit_cards"} \cup ReadOnlyTables

TableNames ==
  SuccessChecked \cup ChangesChecked \cup ReadOnlyTables \cup {"user_configs"}

NullAccount == 0
NeverUpdated == 0
Now == 1

\* The routes of the model.  PUT exists for every table of SuccessChecked and
\* ChangesChecked but pluggy_connections.
NoRoute == [kind |-> "none", table |-> NoTable, id |-> 0, item |-> NoItem]
Route(kind, table, id, item) ==
  [kind |-> kind, table |-> table, id |-> id, item |-> item]
Routes ==
  {Route("health", NoTable, 0, NoItem), Route("status", NoTable, 0, NoItem)}
  \cup {Route("list", t, 0, NoItem) : t \in ReadOnlyTables}
  \cup {Route("update", t, 1, NoItem) :
          t \in (SuccessChecked \cup ChangesChecked) \ {"pluggy_connections"}}
  \cup {Route("delete", t, 1, NoItem) : t \in SuccessChecked \cup ChangesChecked}
  \cup {Route("add", NoTable, 0, i) : i \in Items}
  \cup {Route("sync", NoTable, 0, i) : i \in {NoItem, "i1"}}

\* The rows the database holds when the first request arrives: user u1 has
\* one row in every table, u2 has none; u1 has Pluggy credentials and one
\* connection, for item i1.
InitialDb ==
  [t \in TableNames |->
     CASE t = "expenses" ->
            {[id |-> 1, user_id |-> "u1", pluggy_transaction_id |-> NoTransactionId,
              updated_at |-> NeverUpdated]}
       [] t = "pluggy_connections" ->
            {[id |-> 1, user_id |-> "u1", pluggy_item_id |-> "i1",
              connection_status |-> "CONNECTED", updated_at |-> NeverUpdated]}
       [] t = "user_configs" ->
            {[user_id |-> "u1", config_key |-> "pluggy_client_id"],
             [user_id |-> "u1", config_key |-> "pluggy_client_secret"]}
       [] t \in AccountReferrers ->
            {[id |-> 1, user_id |-> "u1", account_id |-> 1,
              updated_at |-> NeverUpdated]}
       [] OTHER ->
            {[id |-> 1, user_id |-> "u1", updated_at |-> NeverUpdated]}]

\* What the Pluggy API returns for an item: its transactions of the last 30
\* days.  A negative amount is an expense.
PluggyTransactions(item) ==
  IF item = "i1"
  THEN <<[id |-> "t1", amount |-> 0 - 5], [id |-> "t2", amount |-> 7]>>
  ELSE <<[id |-> "t3", amount |-> 0 - 2]>>

NoBody == [success |-> "absent", error |-> FALSE, errors |-> 0]

\* One request: its inputs (route, requestState, header), the context
\* variable userId set by authMiddleware, the handler's constant userId
\* (user), its local variables, and its response.  log is the database
\* statements the handler ran; wrote is the tables whose rows they changed;
\* failed says that a step of the handler failed.
NewApiRequest ==
  [pc |-> "new", route |-> NoRoute,
   requestState |-> [isSignedIn |-> FALSE, userId |-> NoUser],
   header |-> NoUser, userId |-> NoUser, user |-> NoUser,
   status |-> 0, body |-> NoBody, log |-> <<>>, wrote |-> {},
   auth |-> FALSE, handlerRan |-> FALSE, failed |-> FALSE, missing |-> FALSE,
   existing |-> FALSE, connected |-> 0, swallowed |-> FALSE,
   connectionsToSync |-> <<>>, c |-> 0, transactions |-> <<>>, t |-> 0,
   totalNewTransactions |-> 0, errors |-> 0, connectionId |-> 0]

ApiIdle ==
  /\ api = [r \in ApiRequests |-> NewApiRequest]
  /\ db = InitialDb
  /\ sequence = [t \in TableNames |-> 1]
  /\ apiFaults = 0

\* ----------------------------------------- further state: initial values
MaxHandled == 3

\* Two users, each with an account, a credit card and a transaction.
InitialTables ==
  [accounts |-> {[id |-> 1, user_id |-> "u1", name |-> "conta de u1"],
                 [id |-> 2, user_id |-> "u2", name |-> "conta de u2"]},
   credit_cards |-> {[id |-> 1, user_id |-> "u1", linked_account_id |-> NullAccount],
                     [id |-> 2, user_id |-> "u2", linked_account_id |-> NullAccount]},
   budgets |-> {},
   transactions |-> {[id |-> 1, user_id |-> "u1", category |-> "none"],
                     [id |-> 2, user_id |-> "u2", category |-> "none"]},
   webhook_logs |-> {}]

NoRequest == [user |-> NoUser, route |-> "none", status |-> 0, response |-> {}]

IsoIdle == tables = InitialTables /\ last = NoRequest /\ handled = 0

FetchIdle ==
  /\ cachedClerkToken = "none"
  /\ inflightTokenPromise = 0
  /\ getTokenCalls = <<>>
  /\ fetches = <<>>

ConfigIdle == userConfigs = EmptyBag /\ upserts = <<>>

SplitIdle == sql = <<>> /\ statements = <<>> /\ splitReturned = FALSE

NetIdle == networkState = "unmounted" /\ navigatorOnLine = "null" /\ dateNow = 0

ExtraIdle == TwoIdle /\ IsoIdle /\ FetchIdle /\ ConfigIdle /\ SplitIdle /\ NetIdle

Init ==
  /\ ApiIdle
  /\ ExtraIdle
  /\ sources \in SourceEnumerations
  /\ workerState = "unloaded"
  /\ MIGRATIONS = <<>>
  /\ schemaInitPromise = 0
  /\ passes = <<>>
  /\ requests = [r \in Requests |-> NewRequest]
  /\ epoch = 0
  /\ ledgerTable = FALSE
  /\ ledger = {}
  /\ committed = EmptyBag
  /\ tx = NoTransaction
  /\ execCount = EmptyBag
  /\ insertCount = EmptyBag
  /\ failures = 0

\* ---------------------------------------------------------- applyMigration
\* statement.trim().toUpperCase().startsWith('PRAGMA')
IsPragma(statement) ==
  statement # <<>> /\ ToUpperWord(Head(statement)) = "PRAGMA"

pragmaStatements(migration) == SelectSeq(migration.statements, IsPragma)

\* Mutant: the PRAGMA statements are not taken out of the transactional list.
transactionalStatements_All(migration) == migration.statements

transactionalStatements(migration) ==
  SelectSeq(migration.statements, LAMBDA s : ~IsPragma(s))

\* Mutant: every migration is taken as pending.
IsPendingMigration_Always(applied, migration) == TRUE

\* !applied.has(migration.id)
IsPendingMigration(applied, migration) == migration.id \notin applied

\* Entering applyMigration(db, MIGRATIONS[i]): the statements are classified
\* and the first database call is issued.
EnterApply(pass, i) ==
  [pass EXCEPT !.idx = i, !.k = 1,
               !.calls = <<>>, !.lastStatement = NoStatement,
               !.log = Append(@, MIGRATIONS[i].id),
               !.pc = IF pragmaStatements(MIGRATIONS[i]) # <<>>
                      THEN "pragma" ELSE "begin"]

\* The for loop of the pass from index `from` on: the next pending migration
\* is applied, or the pass resolves.
ContinueLoop(pass, from) ==
  LET pending == {i \in from..Len(MIGRATIONS) :
                    IsPendingMigration(pass.applied, MIGRATIONS[i])}
  IN IF pending = {} THEN [pass EXCEPT !.pc = "fulfilled", !.idx = 0, !.k = 0]
     ELSE EnterApply(pass, CHOOSE i \in pending : \A j \in pending : i <= j)

Rejected(pass, id) == [pass EXCEPT !.pc = "rejected", !.failedId = id]

\* The database call `stmt` of kind `op` has been made by applyMigration.
Called(pass, op, stmt) ==
  [pass EXCEPT !.calls = Append(@, [op |-> op, stmt |-> stmt])]

BeginCall == <<"BEGIN", "TRANSACTION">>
InsertCall == <<"INSERT", "schema_migrations">>
CommitCall == <<"COMMIT">>
RollbackCall == <<"ROLLBACK">>

\* An error thrown outside the try block of applyMigration reaches the caller
\* as it is: runStatement's "Failed to execute statement: <statement>" names
\* the statement, the database's own error names nothing.
UnwrappedError(pass, named) ==
  [pass EXCEPT !.errId = NoId, !.errStmt = named]

\* `Failed to apply migration ${migration.id}${detail}: ${reason}` with
\* detail = ` while executing "${lastStatement}"` unless lastStatement is null
WrappedError(pass) ==
  [pass EXCEPT !.errId = MIGRATIONS[pass.idx].id, !.errStmt = pass.lastStatement]

\* Mutant: the rejection handler leaves the cached promise in place.
AfterRejection_Keep(current) == current

\* schemaInitPromise.catch(() => { schemaInitPromise = null; })
AfterRejection(current) == 0

\* Mutant: no BEGIN TRANSACTION is issued, the connection stays in autocommit.
AfterBegin_NoTransaction(t) == t

\* await db.exec('BEGIN TRANSACTION;')
AfterBegin(t) == [t EXCEPT !.open = TRUE]

\* Mutant: the catch block commits instead of rolling back.
OnStatementFailure_Commit == "commit"

\* catch (error) { await db.exec('ROLLBACK;'); ... }
OnStatementFailure == "rollback"

CanFail == failures < MaxFailures

\* The pass p settles as rejected; the catch reaction registered first on the
\* promise runs in the same microtask checkpoint.
RejectPass(p, id, pass) ==
  /\ passes' = [passes EXCEPT ![p] = Rejected(pass, id)]
  /\ schemaInitPromise' = AfterRejection(schemaInitPromise)

InPass(p, pc) == p \in 1..Len(passes) /\ passes[p].pc = pc

CurrentMigration(p) == MIGRATIONS[passes[p].idx]

\* ------------------------------------------------------------- module load
\* The module body runs: MIGRATIONS is built, or the initializer throws and the
\* worker exports nothing.
LoadModule ==
  /\ workerState = "unloaded"
  /\ LET built == BuildMigrations(sources) IN
       /\ workerState' = IF built.error = "none" THEN "loaded" ELSE "failed"
       /\ MIGRATIONS' = built.list
  /\ UNCHANGED <<sources, epoch, schemaInitPromise, passes, requests, failures>>
  /\ UNCHANGED dbVars
  /\ UNCHANGED countVars
  /\ UNCHANGED otherVars

\* A request reaches a worker whose module failed to load: the platform
\* answers it, no middleware runs.
RequestWhileLoadFailed(r) ==
  /\ workerState = "failed"
  /\ requests[r].pc = "new"
  /\ \A q \in Requests : q < r => requests[q].pc # "new"
  /\ requests' = [requests EXCEPT ![r].pc = "crashed", ![r].status = 500]
  /\ UNCHANGED <<schemaInitPromise, passes, failures>>
  /\ UNCHANGED loadVars
  /\ UNCHANGED dbVars
  /\ UNCHANGED countVars
  /\ UNCHANGED otherVars

\* The process is replaced by a fresh one: module state is gone, requests in
\* flight are dropped, the connection's open transaction is rolled back.  The
\* database keeps what was committed.
Restart ==
  /\ epoch < MaxRestarts
  /\ workerState # "unloaded"
  /\ epoch' = epoch + 1
  /\ workerState' = "unloaded"
  /\ MIGRATIONS' = <<>>
  /\ schemaInitPromise' = 0
  /\ passes' = <<>>
  /\ requests' = [r \in Requests |->
                   IF requests[r].pc \in {"awaiting", "handler"}
                   THEN [requests[r] EXCEPT !.pc = "aborted", !.promise = 0]
                   ELSE [requests[r] EXCEPT !.promise = 0]]
  /\ tx' = NoTransaction
  /\ execCount' = EmptyBag
  /\ insertCount' = EmptyBag
  /\ UNCHANGED <<sources, ledgerTable, ledger, committed, failures>>
  /\ UNCHANGED otherVars

\* ---------------------------------------------------- ensureDatabaseSchema
\* Mutant: the guard is missing, every call starts a pass.
NeedsNewPass_Always == TRUE

\* if (!schemaInitPromise)
NeedsNewPass == schemaInitPromise = 0

\* The schema middleware of a request calls ensureDatabaseSchema(c.env.DB) and
\* awaits the promise it returns.  A new pass runs synchronously up to its
\* first await, inside ensureMigrationsTable.
ReceiveRequest(r) ==
  /\ workerState = "loaded"
  /\ requests[r].pc = "new"
  /\ \A q \in Requests : q < r => requests[q].pc # "new"
  /\ IF NeedsNewPass
     THEN /\ passes' = Append(passes, NewPass)
          /\ schemaInitPromise' = Len(passes) + 1
          /\ requests' = [requests EXCEPT ![r].pc = "awaiting",
                                          ![r].promise = Len(passes) + 1,
                                          ![r].call = "started"]
     ELSE /\ UNCHANGED <<passes, schemaInitPromise>>
          /\ requests' = [requests EXCEPT
               ![r].pc = "awaiting",
               ![r].promise = schemaInitPromise,
               ![r].call = IF passes[schemaInitPromise].pc = "fulfilled"
                           THEN "cached" ELSE "joined"]
  /\ UNCHANGED failures
  /\ UNCHANGED loadVars
  /\ UNCHANGED dbVars
  /\ UNCHANGED countVars
  /\ UNCHANGED otherVars

\* Mutant: the middleware goes on to next() although the promise rejected.
OnSchemaRejected_Next == [pc |-> "handler", handlerRan |-> TRUE, status |-> 0]

\* catch (error) { return errorResponse('Database not ready', 500); }
OnSchemaRejected == [pc |-> "done", handlerRan |-> FALSE, status |-> 500]

\* await next()
OnSchemaResolved == [pc |-> "handler", handlerRan |-> TRUE, status |-> 0]

\* The awaited promise has settled and the middleware resumes.
MiddlewareResume(r) ==
  /\ requests[r].pc = "awaiting"
  /\ passes[requests[r].promise].pc \in {"fulfilled", "rejected"}
  /\ LET to == IF passes[requests[r].promise].pc = "fulfilled"
               THEN OnSchemaResolved ELSE OnSchemaRejected
     IN requests' = [requests EXCEPT ![r].pc = to.pc,
                                     ![r].ensure =
                                       IF passes[requests[r].promise].pc = "fulfilled"
                                       THEN "resolved" ELSE "rejected",
                                     ![r].handlerRan = to.handlerRan,
                                     ![r].status = to.status]
  /\ UNCHANGED <<schemaInitPromise, passes, failures>>
  /\ UNCHANGED loadVars
  /\ UNCHANGED dbVars
  /\ UNCHANGED countVars
  /\ UNCHANGED otherVars

\* The route handler returns its response.
HandlerDone(r) ==
  /\ requests[r].pc = "handler"
  /\ requests' = [requests EXCEPT ![r].pc = "done", ![r].status = 200]
  /\ UNCHANGED <<schemaInitPromise, passes, failures>>
  /\ UNCHANGED loadVars
  /\ UNCHANGED dbVars
  /\ UNCHANGED countVars
  /\ UNCHANGED otherVars

\* ------------------------------------------------------- steps of one pass
PassFrame ==
  UNCHANGED <<requests>> /\ UNCHANGED loadVars /\ UNCHANGED otherVars

\* CREATE TABLE IF NOT EXISTS schema_migrations ...
EnsureMigrationsTableOk(p) ==
  /\ InPass(p, "ensureTable")
  /\ ledgerTable' = TRUE
  /\ passes' = [passes EXCEPT ![p].pc = "readLedger"]
  /\ UNCHANGED <<schemaInitPromise, ledger, committed, tx, failures>>
  /\ UNCHANGED countVars
  /\ PassFrame

EnsureMigrationsTableFails(p) ==
  /\ InPass(p, "ensureTable")
  /\ CanFail
  /\ failures' = failures + 1
  /\ RejectPass(p, NoId, passes[p])
  /\ UNCHANGED dbVars
  /\ UNCHANGED countVars
  /\ PassFrame

\* SELECT id FROM schema_migrations, then the loop up to its first await.
GetAppliedMigrationsOk(p) ==
  /\ InPass(p, "readLedger")
  /\ ledgerTable
  /\ passes' = [passes EXCEPT ![p] = ContinueLoop([@ EXCEPT !.applied = ledger], 1)]
  /\ UNCHANGED <<schemaInitPromise, failures>>
  /\ UNCHANGED dbVars
  /\ UNCHANGED countVars
  /\ PassFrame

GetAppliedMigrationsFails(p) ==
  /\ InPass(p, "readLedger")
  /\ IF ledgerTable THEN CanFail /\ failures' = failures + 1
                    ELSE UNCHANGED failures
  /\ RejectPass(p, NoId, passes[p])
  /\ UNCHANGED dbVars
  /\ UNCHANGED countVars
  /\ PassFrame

PragmaKey(p) ==
  <<CurrentMigration(p).id, pragmaStatements(CurrentMigration(p))[passes[p].k]>>

\* runStatement of a PRAGMA, before the transaction opens.
PragmaOk(p) ==
  /\ InPass(p, "pragma")
  /\ execCount' = execCount (+) SetToBag({PragmaKey(p)})
  /\ LET pass == Called(passes[p], "run", PragmaKey(p)[2]) IN
     passes' = [passes EXCEPT ![p] =
       IF pass.k < Len(pragmaStatements(CurrentMigration(p)))
       THEN [pass EXCEPT !.k = @ + 1]
       ELSE [pass EXCEPT !.pc = "begin", !.k = 1]]
  /\ UNCHANGED <<schemaInitPromise, insertCount, failures>>
  /\ UNCHANGED dbVars
  /\ PassFrame

\* The PRAGMA rejects, or resolves with success false: runStatement throws
\* outside the try block.
PragmaFails(p) ==
  /\ InPass(p, "pragma")
  /\ CanFail
  /\ failures' = failures + 1
  /\ execCount' = execCount (+) SetToBag({PragmaKey(p)})
  /\ \E named \in {NoStatement, PragmaKey(p)[2]} :
       RejectPass(p, CurrentMigration(p).id,
                  UnwrappedError([Called(passes[p], "run", PragmaKey(p)[2])
                                    EXCEPT !.failedStmt = PragmaKey(p)[2]], named))
  /\ UNCHANGED insertCount
  /\ UNCHANGED dbVars
  /\ PassFrame

\* BEGIN TRANSACTION succeeds only on a connection with no open transaction.
BeginOk(p) ==
  /\ InPass(p, "begin")
  /\ ~tx.open
  /\ tx' = AfterBegin(tx)
  /\ LET pass == Called(passes[p], "exec", BeginCall) IN
     passes' = [passes EXCEPT ![p] =
       IF transactionalStatements(CurrentMigration(p)) # <<>>
       THEN [pass EXCEPT !.pc = "stmt", !.k = 1]
       ELSE [pass EXCEPT !.pc = "insert", !.k = 0]]
  /\ UNCHANGED <<schemaInitPromise, ledgerTable, ledger, committed, failures>>
  /\ UNCHANGED countVars
  /\ PassFrame

BeginFails(p) ==
  /\ InPass(p, "begin")
  /\ IF tx.open THEN UNCHANGED failures
                ELSE CanFail /\ failures' = failures + 1
  /\ RejectPass(p, CurrentMigration(p).id,
                UnwrappedError([Called(passes[p], "exec", BeginCall)
                                  EXCEPT !.failedStmt = BeginCall], NoStatement))
  /\ UNCHANGED dbVars
  /\ UNCHANGED countVars
  /\ PassFrame

StatementKey(p) ==
  <<CurrentMigration(p).id,
    transactionalStatements(CurrentMigration(p))[passes[p].k]>>

\* runStatement of a transactional statement: its effect joins the open
\* transaction, or is committed at once on a connection in autocommit.
StatementOk(p) ==
  /\ InPass(p, "stmt")
  /\ execCount' = execCount (+) SetToBag({StatementKey(p)})
  /\ IF tx.open
     THEN /\ tx' = [tx EXCEPT !.buf = @ (+) SetToBag({StatementKey(p)})]
          /\ UNCHANGED committed
     ELSE /\ committed' = committed (+) SetToBag({StatementKey(p)})
          /\ UNCHANGED tx
  /\ LET pass == [Called(passes[p], "run", StatementKey(p)[2])
                    EXCEPT !.lastStatement = StatementKey(p)[2]] IN
     passes' = [passes EXCEPT ![p] =
       IF pass.k < Len(transactionalStatements(CurrentMigration(p)))
       THEN [pass EXCEPT !.k = @ + 1]
       ELSE [pass EXCEPT !.pc = "insert", !.k = 0]]
  /\ UNCHANGED <<schemaInitPromise, ledgerTable, ledger, insertCount, failures>>
  /\ PassFrame

StatementFails(p) ==
  /\ InPass(p, "stmt")
  /\ CanFail
  /\ failures' = failures + 1
  /\ execCount' = execCount (+) SetToBag({StatementKey(p)})
  /\ passes' = [passes EXCEPT ![p] =
       [Called(@, "run", StatementKey(p)[2])
          EXCEPT !.pc = OnStatementFailure,
                 !.lastStatement = StatementKey(p)[2],
                 !.failedStmt = StatementKey(p)[2]]]
  /\ UNCHANGED <<schemaInitPromise, insertCount>>
  /\ UNCHANGED dbVars
  /\ PassFrame

\* INSERT INTO schema_migrations (id, applied_at) VALUES (?, CURRENT_TIMESTAMP)
\* id is the primary key: a second row with the same id is refused.
InsertAllowed(id) == ledgerTable /\ id \notin ledger /\ id \notin tx.rows

LedgerInsertOk(p) ==
  /\ InPass(p, "insert")
  /\ InsertAllowed(CurrentMigration(p).id)
  /\ insertCount' = insertCount (+) SetToBag({CurrentMigration(p).id})
  /\ IF tx.open
     THEN /\ tx' = [tx EXCEPT !.rows = @ \cup {CurrentMigration(p).id}]
          /\ UNCHANGED ledger
     ELSE /\ ledger' = ledger \cup {CurrentMigration(p).id}
          /\ UNCHANGED tx
  /\ passes' = [passes EXCEPT ![p] =
       [Called(@, "run", InsertCall) EXCEPT !.pc = "commit"]]
  /\ UNCHANGED <<schemaInitPromise, ledgerTable, committed, execCount, failures>>
  /\ PassFrame

LedgerInsertFails(p) ==
  /\ InPass(p, "insert")
  /\ IF InsertAllowed(CurrentMigration(p).id)
     THEN CanFail /\ failures' = failures + 1
     ELSE UNCHANGED failures
  /\ insertCount' = insertCount (+) SetToBag({CurrentMigration(p).id})
  /\ passes' = [passes EXCEPT ![p] =
       [Called(@, "run", InsertCall)
          EXCEPT !.pc = "rollback", !.failedStmt = InsertCall]]
  /\ UNCHANGED <<schemaInitPromise, execCount>>
  /\ UNCHANGED dbVars
  /\ PassFrame

\* COMMIT makes the buffered effects and the ledger row durable together; the
\* loop then goes on to the next pending migration.
CommitOk(p) ==
  /\ InPass(p, "commit")
  /\ tx.open
  /\ committed' = committed (+) tx.buf
  /\ ledger' = ledger \cup tx.rows
  /\ tx' = NoTransaction
  /\ passes' = [passes EXCEPT ![p] =
       ContinueLoop(Called(@, "exec", CommitCall), @.idx + 1)]
  /\ UNCHANGED <<schemaInitPromise, ledgerTable, failures>>
  /\ UNCHANGED countVars
  /\ PassFrame

CommitFails(p) ==
  /\ InPass(p, "commit")
  /\ IF tx.open THEN CanFail /\ failures' = failures + 1
                ELSE UNCHANGED failures
  /\ passes' = [passes EXCEPT ![p] =
       [Called(@, "exec", CommitCall)
          EXCEPT !.pc = "rollback", !.failedStmt = CommitCall]]
  /\ UNCHANGED schemaInitPromise
  /\ UNCHANGED dbVars
  /\ UNCHANGED countVars
  /\ PassFrame

\* ROLLBACK discards the buffered effects; applyMigration then throws the
\* wrapped error and the pass rejects.
Rollback(p) ==
  /\ InPass(p, "rollback")
  /\ tx' = NoTransaction
  /\ RejectPass(p, CurrentMigration(p).id,
                WrappedError(Called(passes[p], "exec", RollbackCall)))
  /\ UNCHANGED <<ledgerTable, ledger, committed, failures>>
  /\ UNCHANGED countVars
  /\ PassFrame

\* ROLLBACK itself rejects: the error leaves the catch block, the connection
\* keeps its open transaction.
RollbackFails(p) ==
  /\ InPass(p, "rollback")
  /\ CanFail
  /\ failures' = failures + 1
  /\ RejectPass(p, CurrentMigration(p).id,
                UnwrappedError(Called(passes[p], "exec", RollbackCall), NoStatement))
  /\ UNCHANGED dbVars
  /\ UNCHANGED countVars
  /\ PassFrame

PassIds == 1..(MaxRequests + MaxFailures + MaxRestarts)

Next ==
  \/ LoadModule
  \/ Restart
  \/ \E r \in Requests : RequestWhileLoadFailed(r)
  \/ \E r \in Requests : ReceiveRequest(r)
  \/ \E r \in Requests : MiddlewareResume(r)
  \/ \E r \in Requests : HandlerDone(r)
  \/ \E p \in PassIds : EnsureMigrationsTableOk(p)
  \/ \E p \in PassIds : EnsureMigrationsTableFails(p)
  \/ \E p \in PassIds : GetAppliedMigrationsOk(p)
  \/ \E p \in PassIds : GetAppliedMigrationsFails(p)
  \/ \E p \in PassIds : PragmaOk(p)
  \/ \E p \in PassIds : PragmaFails(p)
  \/ \E p \in PassIds : BeginOk(p)
  \/ \E p \in PassIds : BeginFails(p)
  \/ \E p \in PassIds : StatementOk(p)
  \/ \E p \in PassIds : StatementFails(p)
  \/ \E p \in PassIds : LedgerInsertOk(p)
  \/ \E p \in PassIds : LedgerInsertFails(p)
  \/ \E p \in PassIds : CommitOk(p)
  \/ \E p \in PassIds : CommitFails(p)
  \/ \E p \in PassIds : Rollback(p)
  \/ \E p \in PassIds : RollbackFails(p)

Spec == Init /\ [][Next]_vars

\* -------------------------------------------------------------- properties
Range(seq) == {seq[i] : i \in 1..Len(seq)}

PassIndexes == 1..Len(passes)

IsSettled(p) == passes[p].pc \in {"fulfilled", "rejected"}

ApplyInProgress ==
  \E p \in PassIndexes :
    passes[p].pc \in {"pragma", "begin", "stmt", "insert", "commit", "rollback"}

\* The bundled migrations, independent of enumeration order and of whether
\* the module has been loaded.
Bundled ==
  {[id |-> extractMigrationId(src.filePath),
    statements |-> splitSqlStatements(src.sql)] : src \in Range(sources)}

TransactionalKeys(m) ==
  {<<m.id, stmt>> : stmt \in Range(transactionalStatements(m))}

EffectsCommitted(id) ==
  \A m \in Bundled : m.id = id =>
    \A key \in TransactionalKeys(m) : CopiesIn(key, committed) >= 1

AtMostOnce(bag) == \A e \in BagToSet(bag) : CopiesIn(e, bag) <= 1

\* The ids of a set in ascending order of localeCompare.
IdsAscending(ids) ==
  CHOOSE seq \in [1..Cardinality(ids) -> ids] :
    /\ Range(seq) = ids
    /\ \A i, j \in 1..Cardinality(ids) : i < j => localeCompare(seq[i], seq[j]) < 0

IsPrefix(short, long) ==
  Len(short) <= Len(long) /\ SubSeq(long, 1, Len(short)) = short

HasDuplicateIds ==
  \E i, j \in 1..Len(sources) :
    /\ i < j
    /\ extractMigrationId(sources[i].filePath) = extractMigrationId(sources[j].filePath)

\* C1: once a call has resolved, every later call of the process finds the
\* cached promise: the resolved pass stays the last pass and nothing is in
\* flight; when it was the first call of the process, each statement has been
\* run at most once and each id inserted at most once in the process.
Theorem_C1 ==
  /\ \A p \in PassIndexes :
       passes[p].pc = "fulfilled" =>
         /\ p = Len(passes)
         /\ schemaInitPromise = p
         /\ \A q \in PassIndexes : IsSettled(q)
  /\ (Len(passes) >= 1 /\ passes[1].pc = "fulfilled") =>
       AtMostOnce(execCount) /\ AtMostOnce(insertCount)

Witness_C1 ==
  /\ Len(passes) = 1 /\ passes[1].pc = "fulfilled"
  /\ passes[1].log = << <<"1">>, <<"2">> >>
  /\ requests[1].call = "started" /\ requests[1].pc = "done"
  /\ requests[2].call = "cached" /\ requests[2].pc = "done"
  /\ requests[2].status = 200

\* C2: callers that arrive while a pass is in flight all await that one pass,
\* which is the cached promise; no second pass runs beside it and no
\* transactional statement is committed twice.
Theorem_C2 ==
  /\ \A r \in Requests :
       (requests[r].pc = "awaiting" /\ ~IsSettled(requests[r].promise)) =>
         requests[r].promise = schemaInitPromise
  /\ \A p, q \in PassIndexes : (~IsSettled(p) /\ ~IsSettled(q)) => p = q
  /\ AtMostOnce(committed)

Witness_C2 ==
  /\ requests[1].pc = "awaiting" /\ requests[1].call = "started"
  /\ requests[2].pc = "awaiting" /\ requests[2].call = "joined"
  /\ requests[1].promise = requests[2].promise
  /\ passes[requests[1].promise].pc = "stmt"

\* C3: while no applyMigration is in progress, a transactional statement of a
\* migration is committed exactly if the ledger holds the migration's id.
Theorem_C3 ==
  ~ApplyInProgress =>
    \A m \in Bundled : \A key \in TransactionalKeys(m) :
      (CopiesIn(key, committed) >= 1) <=> (m.id \in ledger)

Witness_C3 ==
  /\ ~ApplyInProgress
  /\ \E p \in PassIndexes :
       passes[p].pc = "rejected" /\ passes[p].failedId = <<"2">>
  /\ CopiesIn(<< <<"2">>, CreateT2 >>, execCount) >= 1
  /\ CopiesIn(<< <<"2">>, CreateT2 >>, committed) = 0
  /\ CopiesIn(<< <<"1">>, CreateT1 >>, committed) = 1
  /\ ledger = { <<"1">> }

\* C4: after applyMigration has failed for migration M, and until a later
\* pass is started, the ledger has no row for M, and every migration the pass
\* applied before M is in the ledger with its effects committed.
Theorem_C4 ==
  \A p \in PassIndexes :
    (passes[p].pc = "rejected" /\ passes[p].failedId # NoId /\ p = Len(passes)) =>
      /\ passes[p].failedId \notin ledger
      /\ \A i \in 1..(Len(passes[p].log) - 1) :
           passes[p].log[i] \in ledger /\ EffectsCommitted(passes[p].log[i])

Witness_C4 ==
  \E p \in PassIndexes :
    /\ p = Len(passes)
    /\ passes[p].pc = "rejected" /\ passes[p].failedId = <<"2">>
    /\ passes[p].log = << <<"1">>, <<"2">> >>
    /\ CopiesIn(<< <<"2">>, CreateT3 >>, execCount) >= 1

\* C5: whatever the enumeration order of the sources, a pass invokes
\* applyMigration on the pending migrations (those with statements whose id
\* was not in the ledger when it was read) in ascending order of id, all of
\* them once it has resolved.
PendingIds(applied) ==
  {m.id : m \in {b \in Bundled : b.statements # <<>>}} \ applied

Theorem_C5 ==
  \A p \in PassIndexes :
    /\ IsPrefix(passes[p].log, IdsAscending(PendingIds(passes[p].applied)))
    /\ passes[p].pc = "fulfilled" =>
         passes[p].log = IdsAscending(PendingIds(passes[p].applied))

Witness_C5 ==
  /\ sources[1] = SrcTwo
  /\ \E p \in PassIndexes :
       passes[p].pc = "fulfilled" /\ passes[p].log = << <<"1">>, <<"2">> >>

\* C6: a rejected pass never stays cached and has not recorded the migration
\* it failed on; a pass started after it skips the migrations of the ledger
\* and, when it applies anything, starts with the migration that failed.
Theorem_C6 ==
  /\ schemaInitPromise # 0 => passes[schemaInitPromise].pc # "rejected"
  /\ \A p \in PassIndexes :
       (p > 1 /\ passes[p - 1].failedId # NoId /\ passes[p].log # <<>>) =>
         /\ passes[p].log[1] = passes[p - 1].failedId
         /\ \A i \in 1..Len(passes[p].log) : passes[p].log[i] \notin passes[p].applied
  /\ \A p \in PassIndexes :
       (passes[p].pc = "rejected" /\ passes[p].failedId # NoId /\ p = Len(passes))
         => passes[p].failedId \notin ledger

Witness_C6 ==
  /\ Len(passes) = 2
  /\ passes[1].pc = "rejected" /\ passes[1].failedId = <<"2">>
  /\ passes[1].log = << <<"1">>, <<"2">> >>
  /\ passes[2].applied = { <<"1">> }
  /\ passes[2].log = << <<"2">> >>
  /\ requests[2].call = "started"

\* C7 as stated: a process runs at most one pass in its lifetime.
Original_C7 == Len(passes) <= 1

\* C7 amended: at most one pass is in flight at a time, at most one pass of a
\* process resolves, and a further pass is started only after every earlier
\* pass of the process has rejected.
Theorem_C7 ==
  /\ Cardinality({p \in PassIndexes : ~IsSettled(p)}) <= 1
  /\ Cardinality({p \in PassIndexes : passes[p].pc = "fulfilled"}) <= 1
  /\ \A p \in PassIndexes : p < Len(passes) => passes[p].pc = "rejected"

Witness_C7 ==
  /\ Len(passes) = 2
  /\ passes[1].pc = "rejected"
  /\ passes[2].pc = "fulfilled"
  /\ passes[2].log # <<>>
  /\ requests[1].status = 500 /\ requests[2].status = 200

\* C8: a request whose ensureDatabaseSchema call rejected ends with status
\* 500 without its route handler having run; a route handler runs only for a
\* request whose call resolved.
Theorem_C8 ==
  \A r \in Requests :
    /\ requests[r].ensure = "rejected" =>
         /\ requests[r].pc = "done"
         /\ requests[r].status = 500
         /\ ~requests[r].handlerRan
    /\ (requests[r].handlerRan \/ requests[r].pc = "handler") =>
         requests[r].ensure = "resolved"
    /\ requests[r].pc = "handler" => passes[requests[r].promise].pc = "fulfilled"

Witness_C8 ==
  /\ requests[1].ensure = "rejected" /\ requests[1].status = 500
  /\ requests[2].ensure = "resolved" /\ requests[2].handlerRan
  /\ requests[2].status = 200

\* C9: a pass never invokes applyMigration on a migration whose id was in
\* the ledger when the pass read it, in a restarted process as well, and the
\* ledger is read only once the table exists.
Theorem_C9 ==
  \A p \in PassIndexes :
    /\ \A i \in 1..Len(passes[p].log) : passes[p].log[i] \notin passes[p].applied
    /\ passes[p].pc = "readLedger" => ledgerTable
    /\ passes[p].applied # {} => ledgerTable

Witness_C9 ==
  /\ epoch = 1
  /\ \E p \in PassIndexes :
       /\ passes[p].applied = { <<"1">> }
       /\ passes[p].log = << <<"2">> >>
       /\ passes[p].pc = "fulfilled"

\* C10: when two sources yield the same id, the module never loads: no pass
\* is started, no statement is run, the database is untouched and no route
\* handler runs.
Theorem_C10 ==
  HasDuplicateIds =>
    /\ workerState # "loaded"
    /\ MIGRATIONS = <<>>
    /\ passes = <<>>
    /\ execCount = EmptyBag /\ insertCount = EmptyBag
    /\ committed = EmptyBag /\ ledger = {} /\ ~ledgerTable
    /\ \A r \in Requests : ~requests[r].handlerRan /\ requests[r].ensure = "none"

Witness_C10 ==
  /\ HasDuplicateIds
  /\ Len(sources) = 3
  /\ workerState = "failed"
  /\ requests[1].pc = "crashed"

Original_C12 ==
  \A p \in PassIndexes :
    (passes[p].pc = "rejected" /\ passes[p].failedId # NoId) =>
      /\ passes[p].errId = passes[p].failedId
      /\ passes[p].errStmt = passes[p].failedStmt

\* ---------------------------------------------------------- REST API: steps
ApiFrame == UNCHANGED migrationVars /\ UNCHANGED extraVars

\* A step that awaits the database, the Pluggy API or Clerk can fail, while
\* the budget of injected failures lasts.
Outcomes == IF apiFaults < MaxFaults THEN {"ok", "fails"} ELSE {"ok"}

Spend(outcome) ==
  apiFaults' = IF outcome = "ok" THEN apiFaults ELSE apiFaults + 1

\* Response.json({ error: message }, { status })
errorResponse(status) ==
  [status |-> status, body |-> [NoBody EXCEPT !.error = TRUE]]

\* Response.json(data), status 200
jsonResponse == [status |-> 200, body |-> NoBody]

Respond(req, response) ==
  [req EXCEPT !.pc = "done", !.status = response.status,
              !.body = response.body]

Statement(op, table, user) == [op |-> op, table |-> table, user |-> user]

\* Mutant: the legacy header is read first.
getUserId_HeaderFirst(req) ==
  IF req.header # NoUser THEN req.header ELSE req.userId

\* c.get('userId'), else c.get('auth')?.toAuth().userId, else the X-User-ID
\* header, else null.
getUserId(req) ==
  IF req.userId # NoUser THEN req.userId
  ELSE IF req.auth /\ req.requestState.userId # NoUser
       THEN req.requestState.userId
       ELSE req.header

\* Mutant: authMiddleware lets every request through.
Unauthenticated_Never(state) == FALSE

\* if (!requestState.isSignedIn || !userId)
Unauthenticated(state) == ~state.isSignedIn \/ state.userId = NoUser

\* Routes whose handler starts with  if (!userId) return 401.
HasUserGuard(route) ==
  \/ route.kind \in {"status", "add", "sync"}
  \/ route.kind \in {"update", "delete"} /\ route.table \in ChangesChecked

\* A request arrives: its route, what its bearer token is worth, and its
\* X-User-ID header.  /api/health is registered without authMiddleware.
ReceiveApiRequest(r) ==
  /\ api[r].pc = "new"
  /\ \A q \in ApiRequests : q < r => api[q].pc # "new"
  /\ \E route \in Routes, state \in RequestStates, header \in LegacyHeaders :
       api' = [api EXCEPT
                 ![r].route = route,
                 ![r].requestState = state,
                 ![r].header = header,
                 ![r].handlerRan = (route.kind = "health"),
                 ![r].pc = IF route.kind = "health" THEN "handler" ELSE "auth"]
  /\ UNCHANGED <<db, sequence, apiFaults>>
  /\ ApiFrame

\* SELECT id FROM pluggy_connections WHERE user_id = ? AND pluggy_item_id = ?
ExistingConnection(user, item) ==
  {row \in db["pluggy_connections"] :
     row.user_id = user /\ row.pluggy_item_id = item}

\* The id of the connection that the item of an add-connection request
\* already has when the handler starts; 0 if it has none.
ConnectedAs(user, route) ==
  IF route.kind = "add" /\ ExistingConnection(user, route.item) # {}
  THEN (CHOOSE row \in ExistingConnection(user, route.item) : TRUE).id
  ELSE 0

\* The handler's first lines, run by next():  const userId = getUserId(c)
\* and, where the route has it, the guard on userId.
EnterHandler(req) ==
  LET user == getUserId(req) IN
  IF HasUserGuard(req.route) /\ user = NoUser
  THEN Respond([req EXCEPT !.handlerRan = TRUE, !.user = user],
               errorResponse(401))
  ELSE [req EXCEPT !.handlerRan = TRUE, !.user = user, !.pc = "handler",
                   !.connected = ConnectedAs(user, req.route)]

\* authMiddleware: authenticateRequest has answered, or thrown.
AuthMiddleware(r) ==
  /\ api[r].pc = "auth"
  /\ \E outcome \in Outcomes :
       /\ Spend(outcome)
       /\ IF outcome = "fails" \/ Unauthenticated(api[r].requestState)
          THEN api' = [api EXCEPT ![r] = Respond(@, errorResponse(401))]
          ELSE api' = [api EXCEPT ![r] =
                         EnterHandler([@ EXCEPT
                           !.auth = TRUE,
                           !.userId = api[r].requestState.userId])]
  /\ UNCHANGED <<db, sequence>>
  /\ ApiFrame

InHandler(r, kind) ==
  api[r].pc = "handler" /\ api[r].route.kind = kind

\* GET /api/health:  SELECT 1
Health(r) ==
  /\ InHandler(r, "health")
  /\ \E outcome \in Outcomes :
       /\ Spend(outcome)
       /\ LET ran == [api[r] EXCEPT
                        !.log = Append(@, Statement("SELECT", NoTable, NoUser)),
                        !.failed = (outcome = "fails")]
          IN api' = [api EXCEPT ![r] =
                       IF outcome = "fails"
                       THEN Respond(ran, errorResponse(500))
                       ELSE Respond(ran, jsonResponse)]
  /\ UNCHANGED <<db, sequence>>
  /\ ApiFrame

\* GET /api/investments, /api/loans, /api/credit-card-bills
ListRows(r) ==
  /\ InHandler(r, "list")
  /\ \E outcome \in Outcomes :
       /\ Spend(outcome)
       /\ LET ran == [api[r] EXCEPT
                        !.log = Append(@, Statement("SELECT", api[r].route.table,
                                                    api[r].user)),
                        !.failed = (outcome = "fails")]
          IN api' = [api EXCEPT ![r] =
                       IF outcome = "fails"
                       THEN Respond(ran, errorResponse(500))
                       ELSE Respond(ran, jsonResponse)]
  /\ UNCHANGED <<db, sequence>>
  /\ ApiFrame

\* WHERE id = ? AND user_id = ?
Matching(table, id, user) ==
  {row \in db[table] : row.id = id /\ row.user_id = user}

\* UPDATE <table> SET ..., updated_at = datetime('now') WHERE id = ? AND
\* user_id = ?
UpdateWhere(table, id, user) ==
  [db EXCEPT ![table] =
     {IF row \in Matching(table, id, user)
      THEN [row EXCEPT !.updated_at = Now] ELSE row : row \in db[table]}]

\* Mutant: no foreign-key action.
OnDeleteSetNull_Off(rows, id) == rows

\* FOREIGN KEY(account_id) REFERENCES accounts(id) ON DELETE SET NULL
OnDeleteSetNull(rows, id) ==
  {IF row.account_id = id THEN [row EXCEPT !.account_id = NullAccount]
   ELSE row : row \in rows}

\* DELETE FROM <table> WHERE id = ? AND user_id = ?, with the foreign-key
\* actions of the rows that reference a deleted account.
DeleteWhere(table, id, user) ==
  LET gone == Matching(table, id, user) IN
  [n \in TableNames |->
     IF n = table THEN db[n] \ gone
     ELSE IF table = "accounts" /\ gone # {} /\ n \in AccountReferrers
          THEN OnDeleteSetNull(db[n], id)
          ELSE db[n]]

Written(after) == {n \in TableNames : after[n] # db[n]}

\* Mutant: the route tests result.meta.changes.
ReportsNotFound_Changes(table, changes) == changes = 0

\* if (!result.success) for the tables of SuccessChecked, where success is
\* true of every result that run() resolves with;  if (changes === 0) for
\* the tables of ChangesChecked.
ReportsNotFound(table, changes) ==
  IF table \in ChangesChecked THEN changes = 0 ELSE FALSE

\* The response of an update or delete route after its statement ran.
AfterWrite(req, op, after, changes) ==
  LET table == req.route.table
      ran == [req EXCEPT
                !.log = IF op = "UPDATE" /\ table \in ChangesChecked /\ changes > 0
                        THEN @ \o <<Statement(op, table, req.user),
                                    Statement("SELECT", table, req.user)>>
                        ELSE Append(@, Statement(op, table, req.user)),
                !.wrote = @ \cup Written(after),
                !.missing = (changes = 0)]
  IN IF ReportsNotFound(table, changes)
     THEN Respond(ran, errorResponse(404))
     ELSE Respond(ran, jsonResponse)

\* The statement of an update or delete route was rejected: catch, 500.
WriteRejected(req, op) ==
  Respond([req EXCEPT
             !.log = Append(@, Statement(op, req.route.table, req.user)),
             !.failed = TRUE],
          errorResponse(500))

\* PUT /api/<table>/:id with a valid body
UpdateRow(r) ==
  /\ InHandler(r, "update")
  /\ LET table == api[r].route.table
         id == api[r].route.id
         after == UpdateWhere(table, id, api[r].user)
         changes == Cardinality(Matching(table, id, api[r].user))
     IN \E outcome \in Outcomes :
          /\ Spend(outcome)
          /\ IF outcome = "fails"
             THEN /\ api' = [api EXCEPT ![r] = WriteRejected(@, "UPDATE")]
                  /\ UNCHANGED db
             ELSE /\ api' = [api EXCEPT ![r] =
                               AfterWrite(@, "UPDATE", after, changes)]
                  /\ db' = after
  /\ UNCHANGED sequence
  /\ ApiFrame

\* DELETE /api/<table>/:id
DeleteRow(r) ==
  /\ InHandler(r, "delete")
  /\ LET table == api[r].route.table
         id == api[r].route.id
         after == DeleteWhere(table, id, api[r].user)
         changes == Cardinality(Matching(table, id, api[r].user))
     IN \E outcome \in Outcomes :
          /\ Spend(outcome)
          /\ IF outcome = "fails"
             THEN /\ api' = [api EXCEPT ![r] = WriteRejected(@, "DELETE")]
                  /\ UNCHANGED db
             ELSE /\ api' = [api EXCEPT ![r] =
                               AfterWrite(@, "DELETE", after, changes)]
                  /\ db' = after
  /\ UNCHANGED sequence
  /\ ApiFrame

\* getUserConfigValue twice: both keys present, or null
getPluggyCredentials(user) ==
  /\ [user_id |-> user, config_key |-> "pluggy_client_id"] \in db["user_configs"]
  /\ [user_id |-> user, config_key |-> "pluggy_client_secret"] \in db["user_configs"]

CredentialReads(user) ==
  <<Statement("SELECT", "user_configs", user),
    Statement("SELECT", "user_configs", user)>>

\* SELECT id, pluggy_item_id FROM pluggy_connections WHERE user_id = ?
getUserPluggyConnections(user) ==
  {row \in db["pluggy_connections"] : row.user_id = user}

\* POST /api/pluggy/status: the reads of Promise.all; the catch block answers
\* with Response.json({ status: 'ok', data: { ..., error } }), status 200.
PluggyStatus(r) ==
  /\ InHandler(r, "status")
  /\ \E outcome \in Outcomes :
       /\ Spend(outcome)
       /\ LET ran == [api[r] EXCEPT
                        !.log = @ \o CredentialReads(api[r].user)
                                  \o <<Statement("SELECT", "pluggy_connections",
                                                 api[r].user)>>,
                        !.failed = (outcome = "fails")]
          IN api' = [api EXCEPT ![r] =
                       IF outcome = "fails"
                       THEN Respond(ran, [status |-> 200,
                                          body |-> [NoBody EXCEPT !.error = TRUE]])
                       ELSE Respond(ran, jsonResponse)]
  /\ UNCHANGED <<db, sequence>>
  /\ ApiFrame

\* ------------------------------------------ POST /api/pluggy/add-connection
\* catch (error) { return Response.json({ error }, { status: 400 }) }
AddRejected(req) == Respond([req EXCEPT !.failed = TRUE], errorResponse(400))

AtStep(r, kind, pc) == api[r].route.kind = kind /\ api[r].pc = pc

\* getPluggyClientForUser
AddClient(r) ==
  /\ AtStep(r, "add", "handler")
  /\ \E outcome \in Outcomes :
       /\ Spend(outcome)
       /\ LET ran == [api[r] EXCEPT !.log = @ \o CredentialReads(api[r].user)]
          IN api' = [api EXCEPT ![r] =
                       IF outcome = "fails" \/ ~getPluggyCredentials(api[r].user)
                       THEN AddRejected(ran)
                       ELSE [ran EXCEPT !.pc = "getItem"]]
  /\ UNCHANGED <<db, sequence>>
  /\ ApiFrame

\* client.getItem(itemId.trim())
AddGetItem(r) ==
  /\ AtStep(r, "add", "getItem")
  /\ \E outcome \in Outcomes :
       /\ Spend(outcome)
       /\ api' = [api EXCEPT ![r] =
                    IF outcome = "fails" THEN AddRejected(@)
                    ELSE [@ EXCEPT !.pc = "check"]]
  /\ UNCHANGED <<db, sequence>>
  /\ ApiFrame

\* Check if connection already exists
AddCheck(r) ==
  /\ AtStep(r, "add", "check")
  /\ \E outcome \in Outcomes :
       /\ Spend(outcome)
       /\ LET found == ExistingConnection(api[r].user, api[r].route.item) # {}
              ran == [api[r] EXCEPT
                        !.log = Append(@, Statement("SELECT", "pluggy_connections",
                                                    api[r].user))]
          IN api' = [api EXCEPT ![r] =
                       IF outcome = "fails" THEN AddRejected(ran)
                       ELSE IF found
                            THEN AddRejected([ran EXCEPT !.existing = TRUE])
                            ELSE [ran EXCEPT !.pc = "insert"]]
  /\ UNCHANGED <<db, sequence>>
  /\ ApiFrame

\* Mutant: the table has no UNIQUE constraint.
ViolatesUniqueConnection_Never(user, item) == FALSE

\* UNIQUE(user_id, pluggy_item_id)
ViolatesUniqueConnection(user, item) == ExistingConnection(user, item) # {}

\* INSERT INTO pluggy_connections (user_id, pluggy_item_id, ...)
AddInsert(r) ==
  /\ AtStep(r, "add", "insert")
  /\ LET user == api[r].user
         item == api[r].route.item
         id == sequence["pluggy_connections"] + 1
         ran == [api[r] EXCEPT
                   !.log = Append(@, Statement("INSERT", "pluggy_connections",
                                               user))]
     IN \E outcome \in Outcomes :
          /\ Spend(outcome)
          /\ IF outcome = "fails"
             THEN /\ api' = [api EXCEPT ![r] = AddRejected(ran)]
                  /\ UNCHANGED <<db, sequence>>
             ELSE IF ViolatesUniqueConnection(user, item)
                  THEN /\ api' = [api EXCEPT ![r] =
                                    AddRejected([ran EXCEPT !.existing = TRUE])]
                       /\ UNCHANGED <<db, sequence>>
                  ELSE /\ api' = [api EXCEPT ![r] =
                                    [ran EXCEPT !.pc = "metadata",
                                                !.connectionId = id,
                                                !.wrote = @ \cup {"pluggy_connections"}]]
                       /\ db' = [db EXCEPT !["pluggy_connections"] = @ \cup
                                   {[id |-> id, user_id |-> user,
                                     pluggy_item_id |-> item,
                                     connection_status |-> "CONNECTED",
                                     updated_at |-> Now]}]
                       /\ sequence' = [sequence EXCEPT
                                         !["pluggy_connections"] = id]
  /\ ApiFrame

\* UPDATE pluggy_connections SET ..., updated_at = datetime('now') WHERE id = ?
updatePluggyConnectionMetadata(connectionId, connectionStatus) ==
  [db EXCEPT !["pluggy_connections"] =
     {IF row.id = connectionId
      THEN [row EXCEPT !.connection_status =
                         IF connectionStatus = "unchanged" THEN @
                         ELSE connectionStatus,
                       !.updated_at = Now]
      ELSE row : row \in @}]

\* client.getAccounts, whose failure is only logged, then
\* updatePluggyConnectionMetadata, then the success response.
AddMetadata(r) ==
  /\ AtStep(r, "add", "metadata")
  /\ LET after == updatePluggyConnectionMetadata(api[r].connectionId, "unchanged")
         ran == [api[r] EXCEPT
                   !.log = Append(@, Statement("UPDATE", "pluggy_connections",
                                               NoUser))]
     IN \E outcome \in Outcomes :
          /\ Spend(outcome)
          /\ IF outcome = "fails"
             THEN /\ api' = [api EXCEPT ![r] = AddRejected(ran)]
                  /\ UNCHANGED db
             ELSE /\ api' = [api EXCEPT ![r] =
                               Respond(ran, [status |-> 200,
                                             body |-> [NoBody EXCEPT
                                                         !.success = "true"]])]
                  /\ db' = after
  /\ UNCHANGED sequence
  /\ ApiFrame

\* -------------------------------------------- POST /api/pluggy/sync/:itemId?
RECURSIVE RowsById(_)
RowsById(rows) ==
  IF rows = {} THEN <<>>
  ELSE LET first == CHOOSE row \in rows : \A other \in rows : row.id <= other.id
       IN <<first>> \o RowsById(rows \ {first})

\* The responses with success: false: 400, 404, and the outer catch's 500.
SyncFailed(req, status) ==
  Respond([req EXCEPT !.failed = TRUE],
          [status |-> status,
           body |-> [NoBody EXCEPT !.success = "false", !.error = TRUE]])

\* finalResult = { success: true, newTransactions, errors, message }, 200
SyncCompleted(req) ==
  Respond(req, [status |-> 200,
                body |-> [NoBody EXCEPT !.success = "true",
                                        !.errors = req.errors]])

\* The next turn of  for (const connection of connectionsToSync)
NextConnection(req) ==
  IF req.c + 1 > Len(req.connectionsToSync)
  THEN SyncCompleted([req EXCEPT !.c = @ + 1])
  ELSE [req EXCEPT !.c = @ + 1, !.pc = "fetch"]

\* The next turn of  for (const transaction of transactions), which skips
\* the transactions that are no expense:  if (transaction.amount < 0)
RECURSIVE NextTransaction(_)
NextTransaction(req) ==
  IF req.t > Len(req.transactions) THEN [req EXCEPT !.pc = "metadata"]
  ELSE IF req.transactions[req.t].amount < 0 THEN [req EXCEPT !.pc = "existing"]
  ELSE NextTransaction([req EXCEPT !.t = @ + 1])

\* Mutant: the catch blocks of the loops leave errors alone.
PushError_Drop(req) == [req EXCEPT !.failed = TRUE]

\* errors.push(...) of catch (transactionError) and catch (connectionError)
PushError(req) == [req EXCEPT !.failed = TRUE, !.errors = @ + 1]

CurrentConnection(req) == req.connectionsToSync[req.c]

\* getPluggyClientForUser
SyncClient(r) ==
  /\ AtStep(r, "sync", "handler")
  /\ \E outcome \in Outcomes :
       /\ Spend(outcome)
       /\ LET ran == [api[r] EXCEPT !.log = @ \o CredentialReads(api[r].user)]
          IN api' = [api EXCEPT ![r] =
                       IF outcome = "fails" THEN SyncFailed(ran, 500)
                       ELSE IF ~getPluggyCredentials(api[r].user)
                            THEN SyncFailed(ran, 400)
                            ELSE [ran EXCEPT !.pc = "connections"]]
  /\ UNCHANGED <<db, sequence>>
  /\ ApiFrame

\* SELECT * FROM pluggy_connections WHERE user_id = ? [AND pluggy_item_id = ?]
SyncConnections(r) ==
  /\ AtStep(r, "sync", "connections")
  /\ \E outcome \in Outcomes :
       /\ Spend(outcome)
       /\ LET item == api[r].route.item
              rows == IF item = NoItem
                      THEN getUserPluggyConnections(api[r].user)
                      ELSE ExistingConnection(api[r].user, item)
              ran == [api[r] EXCEPT
                        !.log = Append(@, Statement("SELECT", "pluggy_connections",
                                                    api[r].user)),
                        !.connectionsToSync = RowsById(rows)]
          IN api' = [api EXCEPT ![r] =
                       IF outcome = "fails" THEN SyncFailed(api[r], 500)
                       ELSE IF item # NoItem /\ rows = {}
                            THEN SyncFailed(ran, 404)
                            ELSE NextConnection(ran)]
  /\ UNCHANGED <<db, sequence>>
  /\ ApiFrame

\* catch (connectionError): errors.push, then the connection is marked ERROR
\* (a failure of that update is only logged).
ConnectionFailed(req) ==
  NextConnection(PushError([req EXCEPT
    !.log = Append(@, Statement("UPDATE", "pluggy_connections", NoUser)),
    !.wrote = @ \cup {"pluggy_connections"}]))

\* client.getAllItemTransactions(connection.pluggy_item_id, thirtyDaysAgo)
SyncFetch(r) ==
  /\ AtStep(r, "sync", "fetch")
  /\ LET connection == CurrentConnection(api[r]) IN
     \E outcome \in Outcomes :
       /\ Spend(outcome)
       /\ IF outcome = "fails"
          THEN /\ api' = [api EXCEPT ![r] = ConnectionFailed(@)]
               /\ db' = updatePluggyConnectionMetadata(connection.id, "ERROR")
          ELSE /\ api' = [api EXCEPT ![r] =
                            NextTransaction([@ EXCEPT
                              !.transactions =
                                PluggyTransactions(connection.pluggy_item_id),
                              !.t = 1])]
               /\ UNCHANGED db
  /\ UNCHANGED sequence
  /\ ApiFrame

\* SELECT id FROM expenses WHERE user_id = ? AND pluggy_transaction_id = ?
ExistingExpense(user, transactionId) ==
  {row \in db["expenses"] :
     row.user_id = user /\ row.pluggy_transaction_id = transactionId}

\* catch (transactionError): errors.push, and the loop goes on.
TransactionFailed(req) == NextTransaction([PushError(req) EXCEPT !.t = @ + 1])

\* Check if transaction already exists
SyncExisting(r) ==
  /\ AtStep(r, "sync", "existing")
  /\ \E outcome \in Outcomes :
       /\ Spend(outcome)
       /\ LET transaction == api[r].transactions[api[r].t]
              ran == [api[r] EXCEPT
                        !.log = Append(@, Statement("SELECT", "expenses",
                                                    api[r].user))]
          IN api' = [api EXCEPT ![r] =
                       IF outcome = "fails" THEN TransactionFailed(ran)
                       ELSE IF ExistingExpense(api[r].user, transaction.id) # {}
                            THEN NextTransaction([ran EXCEPT !.t = @ + 1])
                            ELSE [ran EXCEPT !.pc = "insert"]]
  /\ UNCHANGED <<db, sequence>>
  /\ ApiFrame

\* Mutant: the table has no UNIQUE constraint.
ViolatesUniqueExpense_Never(user, transactionId) == FALSE

\* UNIQUE(user_id, pluggy_transaction_id): NULLs do not collide.
ViolatesUniqueExpense(user, transactionId) ==
  transactionId # NoTransactionId /\ ExistingExpense(user, transactionId) # {}

\* INSERT INTO expenses (..., user_id, pluggy_transaction_id, ...)
SyncInsert(r) ==
  /\ AtStep(r, "sync", "insert")
  /\ LET user == api[r].user
         transaction == api[r].transactions[api[r].t]
         id == sequence["expenses"] + 1
         ran == [api[r] EXCEPT
                   !.log = Append(@, Statement("INSERT", "expenses", user))]
     IN \E outcome \in Outcomes :
          /\ Spend(outcome)
          /\ IF outcome = "fails" \/ ViolatesUniqueExpense(user, transaction.id)
             THEN /\ api' = [api EXCEPT ![r] = TransactionFailed(ran)]
                  /\ UNCHANGED <<db, sequence>>
             ELSE /\ api' = [api EXCEPT ![r] =
                               NextTransaction([ran EXCEPT
                                 !.totalNewTransactions = @ + 1,
                                 !.wrote = @ \cup {"expenses"},
                                 !.t = @ + 1])]
                  /\ db' = [db EXCEPT !["expenses"] = @ \cup
                              {[id |-> id, user_id |-> user,
                                pluggy_transaction_id |-> transaction.id,
                                updated_at |-> Now]}]
                  /\ sequence' = [sequence EXCEPT !["expenses"] = id]
  /\ ApiFrame

\* client.getItem has answered or thrown: "refreshFails" is its failure.
MetadataOutcomes ==
  IF apiFaults < MaxFaults THEN {"ok", "fails", "refreshFails"} ELSE {"ok"}

\* client.getItem, whose failure is only logged, and
\* updatePluggyConnectionMetadata with the success message; a failure of the
\* update is the connection's failure.
SyncMetadata(r) ==
  /\ AtStep(r, "sync", "metadata")
  /\ LET connection == CurrentConnection(api[r])
         ran == [api[r] EXCEPT
                   !.log = Append(@, Statement("UPDATE", "pluggy_connections",
                                               NoUser)),
                   !.wrote = @ \cup {"pluggy_connections"}]
     IN \E outcome \in MetadataOutcomes :
          /\ Spend(outcome)
          /\ IF outcome = "fails"
             THEN /\ api' = [api EXCEPT ![r] = ConnectionFailed(ran)]
                  /\ db' = updatePluggyConnectionMetadata(connection.id, "ERROR")
             ELSE /\ api' = [api EXCEPT ![r] =
                               NextConnection([ran EXCEPT
                                 !.swallowed = (outcome = "refreshFails")])]
                  /\ db' = updatePluggyConnectionMetadata(connection.id,
                                                          "CONNECTED")
  /\ UNCHANGED sequence
  /\ ApiFrame

\* ---------------------------------------------------- REST API: behaviours
\* The routes serve once the schema middleware lets requests through: the
\* worker is loaded and its pass found every bundled migration recorded.
SchemaReady ==
  LET built == BuildMigrations(<<SrcOne, SrcTwo>>).list
      ids == {built[i].id : i \in 1..Len(built)}
  IN /\ sources = <<SrcOne, SrcTwo>>
     /\ workerState = "loaded"
     /\ MIGRATIONS = built
     /\ schemaInitPromise = 1
     /\ passes = <<[NewPass EXCEPT !.pc = "fulfilled", !.applied = ids]>>
     /\ requests = [r \in Requests |-> NewRequest]
     /\ epoch = 0
     /\ ledgerTable = TRUE
     /\ ledger = ids
     /\ committed = SetToBag(UNION {
          {<<built[i].id, stmt>> :
             stmt \in {transactionalStatements(built[i])[k] :
                         k \in 1..Len(transactionalStatements(built[i]))}} :
          i \in 1..Len(built)})
     /\ tx = NoTransaction
     /\ execCount = EmptyBag
     /\ insertCount = EmptyBag
     /\ failures = 0

InitApi == SchemaReady /\ ApiIdle /\ ExtraIdle

NextApi ==
  \/ \E r \in ApiRequests : ReceiveApiRequest(r)
  \/ \E r \in ApiRequests : AuthMiddleware(r)
  \/ \E r \in ApiRequests : Health(r)
  \/ \E r \in ApiRequests : ListRows(r)
  \/ \E r \in ApiRequests : UpdateRow(r)
  \/ \E r \in ApiRequests : DeleteRow(r)
  \/ \E r \in ApiRequests : PluggyStatus(r)
  \/ \E r \in ApiRequests : AddClient(r)
  \/ \E r \in ApiRequests : AddGetItem(r)
  \/ \E r \in ApiRequests : AddCheck(r)
  \/ \E r \in ApiRequests : AddInsert(r)
  \/ \E r \in ApiRequests : AddMetadata(r)
  \/ \E r \in ApiRequests : SyncClient(r)
  \/ \E r \in ApiRequests : SyncConnections(r)
  \/ \E r \in ApiRequests : SyncFetch(r)
  \/ \E r \in ApiRequests : SyncExisting(r)
  \/ \E r \in ApiRequests : SyncInsert(r)
  \/ \E r \in ApiRequests : SyncMetadata(r)

SpecApi == InitApi /\ [][NextApi]_vars

\* ------------------------------------------------- REST API: properties
\* The requests that went to a route registered with authMiddleware.
Guarded == {r \in ApiRequests : api[r].route.kind \notin {"none", "health"}}

Authenticated(req) ==
  req.requestState.isSignedIn /\ req.requestState.userId # NoUser

RoutedTo(kind) == {r \in ApiRequests : api[r].route.kind = kind}

Finished(kind) == {r \in RoutedTo(kind) : api[r].pc = "done"}

\* C13: the handler of a route registered with authMiddleware runs only for
\* a request that authenticateRequest found signed in with a user id; a
\* request it did not is answered 401, and its handler has run no database
\* statement and changed no row.
Theorem_C13 ==
  \A r \in Guarded :
    /\ api[r].handlerRan => Authenticated(api[r]) /\ api[r].auth
    /\ ~api[r].handlerRan => api[r].log = <<>> /\ api[r].wrote = {}
    /\ (api[r].pc = "done" /\ ~Authenticated(api[r])) =>
         /\ api[r].status = 401
         /\ ~api[r].handlerRan

Witness_C13 ==
  \E r \in Finished("delete") :
    /\ ~api[r].requestState.isSignedIn
    /\ api[r].header = "u1"
    /\ api[r].status = 401
    /\ api[r].log = <<>>
    /\ apiFaults = 0

\* C14: the user id a handler behind authMiddleware works with is the one of
\* the validated token, whatever the X-User-ID header says, and every
\* statement the handler binds a user id to is bound to that one.
Theorem_C14 ==
  \A r \in Guarded :
    api[r].handlerRan =>
      /\ api[r].user = api[r].requestState.userId
      /\ \A i \in 1..Len(api[r].log) :
           api[r].log[i].user \in {api[r].requestState.userId, NoUser}

Witness_C14 ==
  \E r \in Finished("delete") :
    /\ api[r].route.table = "accounts"
    /\ api[r].requestState.userId = "u2"
    /\ api[r].header = "u1"
    /\ api[r].user = "u2"
    /\ api[r].status = 404
    /\ db["accounts"] = InitialDb["accounts"]

\* C15: no two rows of expenses have the same user_id and the same non-null
\* pluggy_transaction_id.
Theorem_C15 ==
  \A a, b \in db["expenses"] :
    ( /\ a.pluggy_transaction_id # NoTransactionId
      /\ a.user_id = b.user_id
      /\ a.pluggy_transaction_id = b.pluggy_transaction_id ) => a = b

\* Two syncs ran concurrently: one imported the transaction, the INSERT of
\* the other was rejected by the constraint.
Witness_C15 ==
  \E r1, r2 \in Finished("sync") :
    /\ r1 # r2
    /\ apiFaults = 0
    /\ api[r1].totalNewTransactions = 1
    /\ api[r2].totalNewTransactions = 0
    /\ api[r2].errors = 1
    /\ api[r2].log[Len(api[r2].log) - 1].op = "INSERT"

\* C16: pluggy_connections never holds two rows with the same user_id and
\* pluggy_item_id; an add-connection request that finds its item connected
\* (at its SELECT or at its INSERT), or whose item was connected when the
\* handler started and still is, is answered 400 and has not changed
\* pluggy_connections.
Theorem_C16 ==
  /\ \A a, b \in db["pluggy_connections"] :
       (a.user_id = b.user_id /\ a.pluggy_item_id = b.pluggy_item_id) => a = b
  /\ \A r \in Finished("add") :
       ( \/ api[r].existing
         \/ /\ api[r].connected # 0
            /\ \E row \in db["pluggy_connections"] : row.id = api[r].connected )
       => /\ api[r].status = 400
          /\ api[r].body.error
          /\ "pluggy_connections" \notin api[r].wrote

\* Two requests add the same new item concurrently: both find it absent, one
\* INSERT succeeds, the other is rejected by the constraint.
Witness_C16 ==
  \E r1, r2 \in Finished("add") :
    /\ r1 # r2
    /\ apiFaults = 0
    /\ api[r1].route.item = "i2" /\ api[r2].route.item = "i2"
    /\ api[r1].status = 200
    /\ api[r2].status = 400
    /\ api[r2].existing
    /\ api[r2].log[Len(api[r2].log)].op = "INSERT"

\* C17 as stated: an update or delete route whose statement matched no row
\* of the user answers 404 and has changed no row.
Original_C17 ==
  \A r \in Finished("update") \cup Finished("delete") :
    api[r].missing => api[r].status = 404 /\ api[r].wrote = {}

ErrorStatuses == {400, 401, 404, 500}

\* C18 as stated: a response that reports a failure (a step of the route
\* failed, or the request was refused) has status 400, 401, 404 or 500 and a
\* body with an error text; a 2xx response reports no failure.
Original_C18 ==
  \A r \in ApiRequests :
    (api[r].pc = "done" /\ api[r].failed) =>
      /\ api[r].status \in ErrorStatuses
      /\ api[r].body.error

AccountDeleted(id) == \A row \in db["accounts"] : row.id # id

MaxPasses == MaxFailures + 2

\* The next request takes the place of an answered one.
NextInvocation(r) ==
  /\ requests[r].pc \in {"done", "crashed", "aborted"}
  /\ Len(passes) < MaxPasses
  /\ requests' = [requests EXCEPT ![r] = NewRequest]
  /\ UNCHANGED <<schemaInitPromise, passes, failures>>
  /\ UNCHANGED loadVars
  /\ UNCHANGED dbVars
  /\ UNCHANGED countVars
  /\ UNCHANGED otherVars

\* The database answers the call a pass is awaiting, with success or failure.
PassStep ==
  \E p \in PassIds :
    \/ EnsureMigrationsTableOk(p) \/ EnsureMigrationsTableFails(p)
    \/ GetAppliedMigrationsOk(p) \/ GetAppliedMigrationsFails(p)
    \/ PragmaOk(p) \/ PragmaFails(p)
    \/ BeginOk(p) \/ BeginFails(p)
    \/ StatementOk(p) \/ StatementFails(p)
    \/ LedgerInsertOk(p) \/ LedgerInsertFails(p)
    \/ CommitOk(p) \/ CommitFails(p)
    \/ Rollback(p) \/ RollbackFails(p)

NextLive ==
  \/ Next
  \/ \E r \in Requests : NextInvocation(r)

\* Every awaited database call is answered; statement failures are transient
\* because at most MaxFailures of them occur.
SpecLive == Init /\ [][NextLive]_vars /\ WF_vars(PassStep)

\* The ids of MIGRATIONS as the module body builds it: an entry whose file
\* holds no statement is not pushed.
MigrationIds == {m.id : m \in Range(BuildMigrations(sources).list)}

LedgerComplete == ledger = MigrationIds

KeepsBeingInvoked == []<><<\E r \in Requests : ReceiveRequest(r)>>_vars

ResolvedCall ==
  \E r \in Requests : requests[r].pc = "handler" /\ requests[r].ensure = "resolved"

Theorem_C22 ==
  /\ ledger \subseteq MigrationIds
  /\ IsPrefix(IdsAscending(ledger), IdsAscending(MigrationIds))
  /\ \A id \in ledger : \A smaller \in MigrationIds :
       localeCompare(smaller, id) < 0 => smaller \in ledger

Witness_C22 ==
  /\ Cardinality(MigrationIds) = 2
  /\ Cardinality(ledger) = 1
  /\ \E p \in PassIndexes :
       /\ passes[p].pc = "rejected"
       /\ passes[p].failedId \in MigrationIds \ ledger
       /\ passes[p].log = IdsAscending(MigrationIds)

\* ------------------------------------------- two processes on one database
\* Each worker process has its own module state (schemaInitPromise, its pass)
\* and its own connection; schema_migrations and the migrated tables are
\* shared.  The database serialises writers: a connection whose transaction
\* holds uncommitted writes blocks the writes of the other connection.
InitTwo ==
  /\ sources = <<SrcOne, SrcTwo>>
  /\ workerState = "loaded"
  /\ MIGRATIONS = BuildMigrations(<<SrcOne, SrcTwo>>).list
  /\ schemaInitPromise = 0
  /\ passes = <<>>
  /\ requests = [r \in Requests |-> NewRequest]
  /\ epoch = 0
  /\ ledgerTable = FALSE
  /\ ledger = {}
  /\ committed = EmptyBag
  /\ tx = NoTransaction
  /\ execCount = EmptyBag
  /\ insertCount = EmptyBag
  /\ failures = 0
  /\ ApiIdle
  /\ ExtraIdle

TwoFrame ==
  /\ UNCHANGED <<sources, workerState, MIGRATIONS, schemaInitPromise, passes,
                 requests, epoch, tx, execCount, insertCount>>
  /\ UNCHANGED apiVars
  /\ UNCHANGED <<isoVars, fetchVars, configVars, splitVars, netVars>>

At(w, pc) == processes[w].pass.pc = pc

HoldsWriteLock(w) ==
  processes[w].tx.open
  /\ (processes[w].tx.buf # EmptyBag \/ processes[w].tx.rows # {})

\* SQLITE_BUSY: the other connection holds the write lock.
Busy(w) == \E o \in Workers \ {w} : HoldsWriteLock(o)

\* A failure the database forces is not counted; any other failure is one of
\* the MaxFailures injected ones.
Failure(forced) ==
  IF forced THEN UNCHANGED failures ELSE CanFail /\ failures' = failures + 1

TwoMigration(w) == MIGRATIONS[processes[w].pass.idx]

TwoStatementKey(w) ==
  <<TwoMigration(w).id,
    transactionalStatements(TwoMigration(w))[processes[w].pass.k]>>

\* The pass of process w settles as rejected and the catch reaction clears the
\* process's schemaInitPromise.
TwoReject(w, pass) ==
  [processes[w] EXCEPT !.pass = Rejected(pass, IF pass.idx = 0 THEN NoId
                                               ELSE MIGRATIONS[pass.idx].id),
                       !.promise = IF AfterRejection(1) = 0 THEN "none" ELSE "pending"]

TwoDbUnchanged == UNCHANGED <<ledgerTable, ledger, committed, ledgerRows>>

\* ensureDatabaseSchema in process w finds its schemaInitPromise null.
TwoCall(w) ==
  /\ processes[w].promise = "none"
  /\ processes' = [processes EXCEPT ![w].promise = "pending", ![w].pass = NewPass]
  /\ TwoDbUnchanged /\ UNCHANGED failures /\ TwoFrame

TwoEnsureTable(w) ==
  /\ At(w, "ensureTable")
  /\ \/ /\ ~Busy(w)
        /\ ledgerTable' = TRUE
        /\ processes' = [processes EXCEPT ![w].pass.pc = "readLedger"]
        /\ UNCHANGED <<ledger, committed, ledgerRows, failures>>
     \/ /\ Failure(Busy(w))
        /\ processes' = [processes EXCEPT ![w] = TwoReject(w, @.pass)]
        /\ TwoDbUnchanged
  /\ TwoFrame

\* SELECT id FROM schema_migrations sees the committed rows only.
TwoGetApplied(w) ==
  /\ At(w, "readLedger")
  /\ \/ processes' = [processes EXCEPT ![w].pass =
          ContinueLoop([@ EXCEPT !.applied = BagToSet(ledgerRows)], 1)]
        /\ UNCHANGED failures
     \/ /\ Failure(FALSE)
        /\ processes' = [processes EXCEPT ![w] = TwoReject(w, @.pass)]
  /\ TwoDbUnchanged /\ TwoFrame

TwoPragma(w) ==
  /\ At(w, "pragma")
  /\ \/ /\ processes' = [processes EXCEPT ![w].pass =
             IF @.k < Len(pragmaStatements(TwoMigration(w)))
             THEN [@ EXCEPT !.k = @ + 1]
             ELSE [@ EXCEPT !.pc = "begin", !.k = 1]]
        /\ UNCHANGED failures
     \/ /\ Failure(FALSE)
        /\ processes' = [processes EXCEPT ![w] = TwoReject(w, @.pass)]
  /\ TwoDbUnchanged /\ TwoFrame

TwoBegin(w) ==
  /\ At(w, "begin")
  /\ \/ /\ ~processes[w].tx.open
        /\ processes' = [processes EXCEPT
             ![w].tx = AfterBegin(@),
             ![w].pass = IF transactionalStatements(TwoMigration(w)) # <<>>
                         THEN [@ EXCEPT !.pc = "stmt", !.k = 1]
                         ELSE [@ EXCEPT !.pc = "insert", !.k = 0]]
        /\ UNCHANGED failures
     \/ /\ Failure(processes[w].tx.open)
        /\ processes' = [processes EXCEPT ![w] = TwoReject(w, @.pass)]
  /\ TwoDbUnchanged /\ TwoFrame

\* A statement whose effect another process has committed already either
\* changes the database again (CREATE ... IF NOT EXISTS, INSERT) or fails
\* (CREATE of an existing object).
TwoStatement(w) ==
  /\ At(w, "stmt")
  /\ \/ /\ ~Busy(w)
        /\ processes' = [processes EXCEPT
             ![w].tx.buf = IF processes[w].tx.open
                           THEN @ (+) SetToBag({TwoStatementKey(w)}) ELSE @,
             ![w].pass = IF @.k < Len(transactionalStatements(TwoMigration(w)))
                         THEN [@ EXCEPT !.k = @ + 1]
                         ELSE [@ EXCEPT !.pc = "insert", !.k = 0]]
        /\ committed' = IF processes[w].tx.open THEN committed
                        ELSE committed (+) SetToBag({TwoStatementKey(w)})
        /\ UNCHANGED <<ledgerTable, ledger, ledgerRows, failures>>
     \/ /\ Failure(Busy(w) \/ CopiesIn(TwoStatementKey(w), committed) >= 1)
        /\ processes' = [processes EXCEPT ![w].pass.pc = OnStatementFailure]
        /\ TwoDbUnchanged
  /\ TwoFrame

\* Mutant: schema_migrations has no primary key.
PrimaryKeyViolated_Never(w, id) == FALSE

\* id TEXT PRIMARY KEY: a row with the id is committed, or inserted by the
\* connection's own transaction.
PrimaryKeyViolated(w, id) ==
  id \in BagToSet(ledgerRows) \cup processes[w].tx.rows

TwoLedgerInsert(w) ==
  /\ At(w, "insert")
  /\ \/ /\ ~Busy(w)
        /\ ~PrimaryKeyViolated(w, TwoMigration(w).id)
        /\ processes' = [processes EXCEPT
             ![w].tx.rows = IF processes[w].tx.open
                            THEN @ \cup {TwoMigration(w).id} ELSE @,
             ![w].pass.pc = "commit"]
        /\ ledgerRows' = IF processes[w].tx.open THEN ledgerRows
                         ELSE ledgerRows (+) SetToBag({TwoMigration(w).id})
        /\ ledger' = BagToSet(ledgerRows')
        /\ UNCHANGED <<ledgerTable, committed, failures>>
     \/ /\ Failure(Busy(w) \/ PrimaryKeyViolated(w, TwoMigration(w).id))
        /\ processes' = [processes EXCEPT ![w].pass.pc = "rollback"]
        /\ TwoDbUnchanged
  /\ TwoFrame

TwoCommit(w) ==
  /\ At(w, "commit")
  /\ \/ /\ processes[w].tx.open
        /\ committed' = committed (+) processes[w].tx.buf
        /\ ledgerRows' = ledgerRows (+) SetToBag(processes[w].tx.rows)
        /\ ledger' = BagToSet(ledgerRows')
        /\ processes' = [processes EXCEPT
             ![w].tx = NoTransaction,
             ![w].pass = ContinueLoop(@, @.idx + 1),
             ![w].promise = IF ContinueLoop(processes[w].pass,
                                            processes[w].pass.idx + 1).pc = "fulfilled"
                            THEN "fulfilled" ELSE @]
        /\ UNCHANGED <<ledgerTable, failures>>
     \/ /\ Failure(~processes[w].tx.open)
        /\ processes' = [processes EXCEPT ![w].pass.pc = "rollback"]
        /\ TwoDbUnchanged
  /\ TwoFrame

TwoRollback(w) ==
  /\ At(w, "rollback")
  /\ \/ /\ processes' = [processes EXCEPT
             ![w] = [TwoReject(w, @.pass) EXCEPT !.tx = NoTransaction]]
        /\ UNCHANGED failures
     \/ /\ Failure(FALSE)
        /\ processes' = [processes EXCEPT ![w] = TwoReject(w, @.pass)]
  /\ TwoDbUnchanged /\ TwoFrame

NextTwo ==
  \/ \E w \in Workers : TwoCall(w)
  \/ \E w \in Workers : TwoEnsureTable(w)
  \/ \E w \in Workers : TwoGetApplied(w)
  \/ \E w \in Workers : TwoPragma(w)
  \/ \E w \in Workers : TwoBegin(w)
  \/ \E w \in Workers : TwoStatement(w)
  \/ \E w \in Workers : TwoLedgerInsert(w)
  \/ \E w \in Workers : TwoCommit(w)
  \/ \E w \in Workers : TwoRollback(w)

SpecTwo == InitTwo /\ [][NextTwo]_vars

\* C23: with two processes running ensureDatabaseSchema against one database,
\* schema_migrations never holds an id twice and no transactional statement of
\* a migration is committed more than once.
Theorem_C23 == AtMostOnce(ledgerRows) /\ AtMostOnce(committed)

Witness_C23 ==
  /\ \A w \in Workers : processes[w].pass.applied = {}
  /\ processes[1].pass.pc = "fulfilled"
  /\ processes[2].pass.pc = "rejected"
  /\ processes[2].pass.log = << <<"1">> >>
  /\ processes[2].pass.failedId = <<"1">>
  /\ ledgerRows = SetToBag(MigrationIds)
  /\ failures = 0

\* ------------------------------------------ requests of several users
\* The routes below run for an authenticated user (getUserId(c)), each as the
\* statements its handler runs.  The user_id of a webhook_logs row is the user
\* whose request wrote it; the table has no such column.
InitIso == SchemaReady /\ ApiIdle /\ ExtraIdle

IsoFrame ==
  /\ UNCHANGED migrationVars
  /\ UNCHANGED apiVars
  /\ UNCHANGED <<twoVars, fetchVars, configVars, splitVars, netVars>>

AccountIds == {1, 2}

\* LEFT JOIN accounts a ON <reference> = a.id: the name of the account, or
\* NULL.  The join has no condition on a.user_id.
JoinedAccountName(t, reference) ==
  IF \E a \in t.accounts : a.id = reference
  THEN (CHOOSE a \in t.accounts : a.id = reference).name
  ELSE "NULL"

\* SELECT cc.*, a.name as linked_account_name ... WHERE cc.user_id = ?
SelectCreditCards(t, user) ==
  {[id |-> cc.id, linked_account_id |-> cc.linked_account_id,
    linked_account_name |-> JoinedAccountName(t, cc.linked_account_id)] :
     cc \in {row \in t.credit_cards : row.user_id = user}}

\* SELECT b.*, a.name AS account_name ... WHERE b.user_id = ?
SelectBudgets(t, user) ==
  {[id |-> b.id, account_id |-> b.account_id,
    account_name |-> JoinedAccountName(t, b.account_id)] :
     b \in {row \in t.budgets : row.user_id = user}}

\* SELECT * FROM webhook_logs ORDER BY created_at DESC LIMIT ?
SelectWebhookLogs(t, user) == {[id |-> row.id] : row \in t.webhook_logs}

ReadRoutes == {"GET /api/credit-cards", "GET /api/budgets",
               "GET /api/pluggy/webhook-logs"}

ReadResponse(route, user, t) ==
  CASE route = "GET /api/credit-cards" -> SelectCreditCards(t, user)
    [] route = "GET /api/budgets" -> SelectBudgets(t, user)
    [] route = "GET /api/pluggy/webhook-logs" -> SelectWebhookLogs(t, user)

Handled(user, route, status, response) ==
  /\ handled < MaxHandled
  /\ handled' = handled + 1
  /\ last' = [user |-> user, route |-> route, status |-> status,
              response |-> response]

Read(user, route) ==
  /\ Handled(user, route, 200, ReadResponse(route, user, tables))
  /\ UNCHANGED tables
  /\ IsoFrame

\* FOREIGN KEY ... REFERENCES accounts(id): the referenced account exists,
\* whoever owns it, or the reference is NULL.
ForeignKeyHolds(reference) ==
  reference = NullAccount \/ \E a \in tables.accounts : a.id = reference

\* POST /api/credit-cards/:id/link
LinkCreditCard(user, cardId, accountId) ==
  /\ IF ForeignKeyHolds(accountId)
     THEN /\ tables' = [tables EXCEPT !.credit_cards =
                {IF cc.id = cardId /\ cc.user_id = user
                 THEN [cc EXCEPT !.linked_account_id = accountId] ELSE cc :
                   cc \in @}]
          /\ Handled(user, "POST /api/credit-cards/:id/link", 200, {})
     ELSE /\ UNCHANGED tables
          /\ Handled(user, "POST /api/credit-cards/:id/link", 500, {})
  /\ IsoFrame

NextId(rows) == 1 + Cardinality(rows)

\* POST /api/budgets: the INSERT, then the SELECT of the created row.
CreateBudget(user, accountId) ==
  /\ IF ForeignKeyHolds(accountId)
     THEN /\ tables' = [tables EXCEPT !.budgets =
                @ \cup {[id |-> NextId(@), user_id |-> user,
                         account_id |-> accountId]}]
          /\ Handled(user, "POST /api/budgets", 201,
                     {b \in SelectBudgets(tables', user) :
                        b.id = NextId(tables.budgets)})
     ELSE /\ UNCHANGED tables
          /\ Handled(user, "POST /api/budgets", 500, {})
  /\ IsoFrame

\* DELETE /api/accounts/:id with the ON DELETE SET NULL actions of the rows
\* that reference the account.
DeleteAccount(user, accountId) ==
  /\ IF \E a \in tables.accounts : a.id = accountId /\ a.user_id = user
     THEN /\ tables' = [tables EXCEPT
                !.accounts = {a \in @ : a.id # accountId},
                !.credit_cards =
                  {IF cc.linked_account_id = accountId
                   THEN [cc EXCEPT !.linked_account_id = NullAccount] ELSE cc :
                     cc \in @},
                !.budgets = OnDeleteSetNull(@, accountId)]
          /\ Handled(user, "DELETE /api/accounts/:id", 200, {})
     ELSE /\ UNCHANGED tables
          /\ Handled(user, "DELETE /api/accounts/:id", 404, {})
  /\ IsoFrame

\* POST /api/transactions/bulk: WHERE user_id = ? AND id IN (...)
BulkTransactions(user, operation, ids) ==
  /\ tables' = [tables EXCEPT !.transactions =
       IF operation = "delete"
       THEN {row \in @ : ~(row.user_id = user /\ row.id \in ids)}
       ELSE {IF row.user_id = user /\ row.id \in ids
             THEN [row EXCEPT !.category = "categoria"] ELSE row : row \in @}]
  /\ Handled(user, "POST /api/transactions/bulk", 200, {})
  /\ IsoFrame

\* POST /api/pluggy/test-webhook logs the attempt.
TestWebhook(user) ==
  /\ tables' = [tables EXCEPT !.webhook_logs =
       @ \cup {[id |-> NextId(@), user_id |-> user]}]
  /\ Handled(user, "POST /api/pluggy/test-webhook", 200, {})
  /\ IsoFrame

NextIso ==
  \/ \E user \in Users, route \in ReadRoutes : Read(user, route)
  \/ \E user \in Users, cardId \in {1, 2}, accountId \in AccountIds \cup {NullAccount} :
       LinkCreditCard(user, cardId, accountId)
  \/ \E user \in Users, accountId \in AccountIds \cup {NullAccount} :
       CreateBudget(user, accountId)
  \/ \E user \in Users, accountId \in AccountIds : DeleteAccount(user, accountId)
  \/ \E user \in Users, operation \in {"categorize", "delete"},
        ids \in SUBSET {1, 2} \ {{}} : BulkTransactions(user, operation, ids)
  \/ \E user \in Users : TestWebhook(user)

SpecIso == InitIso /\ [][NextIso]_vars

\* A database that differs from t only in rows whose user_id is not user: the
\* accounts of the others carry another name, the webhook logs of the others
\* are absent.
Differing(t, user) ==
  [t EXCEPT
     !.accounts = {IF a.user_id = user THEN a ELSE [a EXCEPT !.name = "outro nome"] :
                     a \in @},
     !.webhook_logs = {row \in @ : row.user_id = user}]

\* C24 as stated: the response to a read request of user U is the same on a
\* database that differs only in rows whose user_id is not U.
Original_C24 ==
  last.route \in ReadRoutes =>
    last.response = ReadResponse(last.route, last.user, Differing(tables, last.user))

UserScoped == {"accounts", "credit_cards", "budgets", "transactions"}

RowsOfOthers(t, user) ==
  [n \in UserScoped |-> {row \in t[n] : row.user_id # user}]

\* C25 as stated: a request handled for user U leaves every row whose user_id
\* differs from U unchanged, in every user-scoped table.
Original_C25 ==
  [][handled' # handled =>
       RowsOfOthers(tables', last'.user) = RowsOfOthers(tables, last'.user)]_vars

\* ------------------------------------------------ the front end's apiFetch
MaxFetches == 2
AuthRounds == 2

FetchCalls == 1..MaxFetches

\* The explicit base URL (VITE_API_BASE_URL) and the host fallbacks of the
\* page: none, a cross-origin explicit base, a same-origin relative base, and
\* an explicit base that is also the fallback.
BaseUrlResolutions ==
  {[explicitBaseUrl |-> "", hostFallbackBaseUrls |-> <<>>],
   [explicitBaseUrl |-> "https://api", hostFallbackBaseUrls |-> <<"https://worker">>],
   [explicitBaseUrl |-> "/base", hostFallbackBaseUrls |-> <<"https://worker">>],
   [explicitBaseUrl |-> "https://worker", hostFallbackBaseUrls |-> <<"https://worker">>]}

\* new URL(value, window.location.origin).origin === window.location.origin
isSameOriginBaseUrl(value) == value \in {"", "/base"}

\* pushBaseUrl: an empty candidate and one already in the list are skipped.
PushBaseUrl(attempts, candidate) ==
  IF candidate = "" \/ candidate \in Range(attempts) THEN attempts
  ELSE Append(attempts, candidate)

RECURSIVE PushAll(_, _)
PushAll(attempts, candidates) ==
  IF candidates = <<>> THEN attempts
  ELSE PushAll(PushBaseUrl(attempts, Head(candidates)), Tail(candidates))

buildBaseUrlAttempts(mutating, apiPath, baseUrls) ==
  LET preferHostFallback ==
        /\ isSameOriginBaseUrl(baseUrls.explicitBaseUrl)
        /\ Len(baseUrls.hostFallbackBaseUrls) > 0
        /\ (mutating \/ apiPath)
      attempts ==
        IF preferHostFallback
        THEN PushBaseUrl(PushAll(<<>>, baseUrls.hostFallbackBaseUrls),
                         baseUrls.explicitBaseUrl)
        ELSE PushAll(PushBaseUrl(<<>>, baseUrls.explicitBaseUrl),
                     baseUrls.hostFallbackBaseUrls)
  IN IF attempts = <<>> THEN <<"">> ELSE attempts

\* What a fetch is answered with; html: content-type includes text/html.
Responses ==
  {[status |-> 200, html |-> FALSE], [status |-> 200, html |-> TRUE],
   [status |-> 401, html |-> FALSE], [status |-> 404, html |-> FALSE]}

\* normalizePathForOrigin(attemptedUrl).startsWith('/api/'): under the
\* relative base the path starts with the base.
StartsWithApi(apiPath, attemptedBaseUrl) == apiPath /\ attemptedBaseUrl # "/base"

shouldRetryWithNextBase(response, mutating, apiPath, attemptedBaseUrl, nextBaseUrl, baseUrls) ==
  LET attemptedIsSameOrigin == isSameOriginBaseUrl(attemptedBaseUrl)
      attemptedIsExplicit ==
        baseUrls.explicitBaseUrl # "" /\ attemptedBaseUrl = baseUrls.explicitBaseUrl
      attemptedIsFallback == attemptedBaseUrl \in Range(baseUrls.hostFallbackBaseUrls)
      status == response.status
  IN IF nextBaseUrl = "undefined" \/ nextBaseUrl = attemptedBaseUrl THEN FALSE
     ELSE IF ~attemptedIsSameOrigin /\ ~attemptedIsExplicit /\ ~attemptedIsFallback
     THEN FALSE
     ELSE IF attemptedIsSameOrigin
     THEN IF status = 404 THEN TRUE
          ELSE IF ~response.html THEN FALSE
          ELSE IF ~apiPath /\ ~mutating THEN FALSE
          ELSE IF StartsWithApi(apiPath, attemptedBaseUrl) THEN TRUE
          ELSE mutating
     ELSE IF status \in {404, 500} THEN TRUE
          ELSE IF ~response.html THEN FALSE
          ELSE IF StartsWithApi(apiPath, attemptedBaseUrl) THEN TRUE
          ELSE mutating

NewFetch(baseUrls) ==
  [pc |-> "new", baseUrls |-> baseUrls, mutating |-> FALSE, apiPath |-> FALSE,
   ownHeader |-> FALSE, authAttempt |-> 0,
   hasAuthorizationHeader |-> FALSE, attempts |-> <<>>, index |-> 0,
   awaiting |-> 0, lastError |-> FALSE, answer |-> 0, status |-> 0,
   requested |-> <<>>,
   firstRound |-> [authorization |-> FALSE, status |-> 0]]

InitFetch ==
  /\ SchemaReady /\ ApiIdle /\ TwoIdle /\ IsoIdle /\ ConfigIdle /\ SplitIdle /\ NetIdle
  /\ cachedClerkToken = "none"
  /\ inflightTokenPromise = 0
  /\ getTokenCalls = <<>>
  /\ \E baseUrls \in BaseUrlResolutions :
       fetches = [c \in FetchCalls |-> NewFetch(baseUrls)]

FetchFrame ==
  /\ UNCHANGED migrationVars
  /\ UNCHANGED apiVars
  /\ UNCHANGED <<twoVars, isoVars, configVars, splitVars, netVars>>

\* The request to attempts[index] is issued with the round's headers.
Issue(f, index) ==
  [f EXCEPT !.pc = "fetch", !.index = index,
            !.requested = Append(@, [round |-> f.authAttempt,
                                     base |-> f.attempts[index]])]

\* The loop over attempts starts: method, attempts and hasAuthorizationHeader
\* are computed and the first request is issued.
StartRound(f, hasAuthorizationHeader) ==
  LET g == [f EXCEPT !.hasAuthorizationHeader = hasAuthorizationHeader,
                     !.attempts = buildBaseUrlAttempts(f.mutating, f.apiPath, f.baseUrls)]
  IN Issue(g, 1)

\* withClerkAuthorization up to the fetch or up to the await of the token,
\* with the cache as `cached` and `inflight` when it is entered.
\* requestClerkToken: a valid cached token is returned, an expired one is
\* dropped; without an in-flight promise getToken() is called.
withClerkAuthorization(c, f, cached, inflight) ==
  IF f.ownHeader
  THEN /\ fetches' = [fetches EXCEPT ![c] = StartRound(f, f.ownHeader)]
       /\ cachedClerkToken' = cached
       /\ inflightTokenPromise' = inflight
       /\ UNCHANGED getTokenCalls
  ELSE IF cached = "valid"
  THEN /\ fetches' = [fetches EXCEPT ![c] = StartRound(f, TRUE)]
       /\ cachedClerkToken' = cached
       /\ inflightTokenPromise' = inflight
       /\ UNCHANGED getTokenCalls
  ELSE /\ cachedClerkToken' = "none"
       /\ IF inflight = 0
          THEN /\ getTokenCalls' = Append(getTokenCalls, "pending")
               /\ inflightTokenPromise' = Len(getTokenCalls) + 1
          ELSE /\ UNCHANGED getTokenCalls
               /\ inflightTokenPromise' = inflight
       /\ fetches' = [fetches EXCEPT ![c] =
            [f EXCEPT !.pc = "awaitToken", !.awaiting = inflightTokenPromise']]

\* The calls of the model: GET /api/..., POST and GET of another path.
CallKinds ==
  {[mutating |-> FALSE, apiPath |-> TRUE], [mutating |-> TRUE, apiPath |-> FALSE],
   [mutating |-> FALSE, apiPath |-> FALSE]}

\* apiFetch(path, init) is called, with or without an Authorization header of
\* the caller; window.Clerk.session is there.
ApiFetch(c) ==
  /\ fetches[c].pc = "new"
  /\ \A q \in FetchCalls : q < c => fetches[q].pc # "new"
  /\ \E kind \in CallKinds, ownHeader \in BOOLEAN :
       withClerkAuthorization(c,
         [fetches[c] EXCEPT !.mutating = kind.mutating, !.apiPath = kind.apiPath,
                            !.ownHeader = ownHeader],
         cachedClerkToken, inflightTokenPromise)
  /\ FetchFrame

\* Date.now() reaches expiresAt - TOKEN_REFRESH_BUFFER_MS.
TokenExpires ==
  /\ cachedClerkToken = "valid"
  /\ cachedClerkToken' = "expired"
  /\ UNCHANGED <<inflightTokenPromise, getTokenCalls, fetches>>
  /\ FetchFrame

\* The session's getToken() call g settles: the reactions registered by
\* requestClerkToken run.
GetTokenSettles(g) ==
  /\ g \in 1..Len(getTokenCalls)
  /\ getTokenCalls[g] = "pending"
  /\ \E outcome \in {"token", "null", "rejected"} :
       /\ getTokenCalls' = [getTokenCalls EXCEPT ![g] =
            IF outcome = "token" THEN "token" ELSE "none"]
       /\ cachedClerkToken' = CASE outcome = "token" -> "valid"
                                [] outcome = "null" -> "none"
                                [] OTHER -> cachedClerkToken
  /\ inflightTokenPromise' = 0
  /\ UNCHANGED fetches
  /\ FetchFrame

\* The await of requestClerkToken resumes in withClerkAuthorization.
TokenArrives(c) ==
  /\ fetches[c].pc = "awaitToken"
  /\ getTokenCalls[fetches[c].awaiting] # "pending"
  /\ fetches' = [fetches EXCEPT ![c] =
       StartRound(@, getTokenCalls[fetches[c].awaiting] = "token")]
  /\ UNCHANGED <<cachedClerkToken, inflightTokenPromise, getTokenCalls>>
  /\ FetchFrame

Thrown == 0 - 1

NextBaseUrl(f) ==
  IF f.index < Len(f.attempts) THEN f.attempts[f.index + 1] ELSE "undefined"

\* Mutant: a 401 starts another round whatever the request carried.
RetryWithFreshToken_Always(hasAuthorizationHeader, authAttempt) == authAttempt = 0

\* if (hasAuthorizationHeader && authAttempt === 0)
RetryWithFreshToken(hasAuthorizationHeader, authAttempt) ==
  hasAuthorizationHeader /\ authAttempt = 0

\* executeFetch resolves with a response.
FetchResponds(c) ==
  /\ fetches[c].pc = "fetch"
  /\ \E response \in Responses :
       LET f == [fetches[c] EXCEPT !.answer = response.status] IN
       fetches' = [fetches EXCEPT ![c] =
         IF response.status = 401
         THEN IF RetryWithFreshToken(f.hasAuthorizationHeader, f.authAttempt)
              THEN [f EXCEPT !.pc = "cancel",
                             !.firstRound = [authorization |-> f.hasAuthorizationHeader,
                                             status |-> 401]]
              ELSE [f EXCEPT !.pc = "returned", !.status = 401]
         ELSE IF shouldRetryWithNextBase(response, f.mutating, f.apiPath,
                                         f.attempts[f.index], NextBaseUrl(f),
                                         f.baseUrls)
              THEN Issue(f, f.index + 1)
              ELSE [f EXCEPT !.pc = "returned", !.status = response.status]]
  /\ UNCHANGED <<cachedClerkToken, inflightTokenPromise, getTokenCalls>>
  /\ FetchFrame

\* executeFetch throws (network error, OfflineError): the next base is tried,
\* after the last one apiFetch throws lastError.
FetchThrows(c) ==
  /\ fetches[c].pc = "fetch"
  /\ LET f == [fetches[c] EXCEPT !.lastError = TRUE, !.answer = Thrown] IN
     fetches' = [fetches EXCEPT ![c] =
       IF f.index < Len(f.attempts) THEN Issue(f, f.index + 1)
       ELSE [f EXCEPT !.pc = "threw"]]
  /\ UNCHANGED <<cachedClerkToken, inflightTokenPromise, getTokenCalls>>
  /\ FetchFrame

\* After the 401 of the first round: invalidateCachedClerkToken(), then the
\* second round's withClerkAuthorization.
RetryRound(c) ==
  /\ fetches[c].pc = "cancel"
  /\ fetches[c].authAttempt + 1 < AuthRounds
  /\ withClerkAuthorization(c,
       [fetches[c] EXCEPT !.authAttempt = @ + 1, !.lastError = FALSE,
                          !.answer = 0], "none", 0)
  /\ FetchFrame

NextFetch ==
  \/ \E c \in FetchCalls : ApiFetch(c)
  \/ TokenExpires
  \/ \E g \in 1..(AuthRounds * MaxFetches) : GetTokenSettles(g)
  \/ \E c \in FetchCalls : TokenArrives(c)
  \/ \E c \in FetchCalls : FetchResponds(c)
  \/ \E c \in FetchCalls : FetchThrows(c)
  \/ \E c \in FetchCalls : RetryRound(c)

SpecFetch == InitFetch /\ [][NextFetch]_vars

\* The bases requested in round `round`, in the order of the requests.
RoundBases(f, round) ==
  LET of == SelectSeq(f.requested, LAMBDA e : e.round = round)
  IN [i \in 1..Len(of) |-> of[i].base]

Distinct(seq) == \A i, j \in 1..Len(seq) : i # j => seq[i] # seq[j]

Terminated(f) == f.pc \in {"returned", "threw"}

\* C26: an apiFetch call makes at most AuthRounds rounds; the bases it
\* requests in a round are the first bases of the attempts list, each once and
\* in list order; a second round follows only a 401 to a first-round request
\* that carried an Authorization header; a 401 in the second round is
\* returned; the call ends by returning a response or by throwing the error
\* of a failed request, after at most AuthRounds requests per base, and until
\* then it awaits a getToken() call, a fetch, or the start of its second round.
Theorem_C26 ==
  \A c \in FetchCalls :
    LET f == fetches[c]
        attempts == buildBaseUrlAttempts(f.mutating, f.apiPath, f.baseUrls)
    IN /\ f.authAttempt < AuthRounds
       /\ \A i \in 1..Len(f.requested) : f.requested[i].round \in 0..f.authAttempt
       /\ Distinct(attempts)
       /\ \A round \in 0..(AuthRounds - 1) :
            IsPrefix(RoundBases(f, round), attempts)
       /\ Len(f.requested) <= AuthRounds * Len(attempts)
       /\ f.authAttempt > 0 =>
            f.firstRound.status = 401 /\ f.firstRound.authorization
       /\ (f.authAttempt > 0 /\ f.answer = 401 /\ f.pc # "fetch") =>
            f.pc = "returned" /\ f.status = 401
       /\ f.pc = "returned" => f.status = f.answer
       /\ f.pc = "threw" => f.lastError /\ f.answer = Thrown
       /\ f.pc = "cancel" => f.authAttempt + 1 < AuthRounds
       /\ f.pc = "awaitToken" => f.awaiting \in 1..Len(getTokenCalls)
       /\ f.pc = "fetch" => f.index \in 1..Len(attempts) /\ f.attempts = attempts

Witness_C26 ==
  \E c \in FetchCalls :
    /\ fetches[c].pc = "returned" /\ fetches[c].status = 401
    /\ fetches[c].authAttempt = 1
    /\ RoundBases(fetches[c], 0) = <<"https://worker", "/base">>
    /\ RoundBases(fetches[c], 1) = <<"https://worker", "/base">>

Outstanding == {g \in 1..Len(getTokenCalls) : getTokenCalls[g] = "pending"}

\* C27 as stated: at most one getToken() call started by requestClerkToken is
\* outstanding at any time.
Original_C27 == Cardinality(Outstanding) <= 1

\* ---------------------------------------------------------------------------
\* upsertUserConfigValue under concurrent calls (POST /api/pluggy/config runs
\* two of them with Promise.all; two requests of one user interleave theirs).
\* userConfigs is the bag of rows of user_configs; the unique index
\* idx_user_configs_user_key rejects a second row of a (user_id, config_key).
\* ---------------------------------------------------------------------------

MaxUpserts == 2

ConfigKeys == {"pluggy_client_id", "pluggy_client_secret"}

ConfigValues == {"a", "b"}

ConfigRow(key, value) == [user_id |-> "u1", config_key |-> key, config_value |-> value]

RowsOfKey(rows, key) == {r \in BagToSet(rows) : r.config_key = key}

InitConfig ==
  /\ SchemaReady
  /\ ApiIdle
  /\ TwoIdle /\ IsoIdle /\ FetchIdle /\ SplitIdle /\ NetIdle
  /\ \E stored \in SUBSET ConfigKeys :
       userConfigs = SetToBag({ConfigRow(key, "old") : key \in stored})
  /\ upserts = <<>>

ConfigFrame ==
  /\ UNCHANGED migrationVars
  /\ UNCHANGED apiVars
  /\ UNCHANGED <<twoVars, isoVars, fetchVars, splitVars, netVars>>

\* upsertUserConfigValue(db, userId, configKey, value) is called.
UpsertCall ==
  /\ Len(upserts) < MaxUpserts
  /\ \E key \in ConfigKeys, value \in ConfigValues :
       upserts' = Append(upserts,
                         [pc |-> "update", key |-> key, value |-> value,
                          changes |-> 0, faulted |-> FALSE])
  /\ UNCHANGED userConfigs
  /\ ConfigFrame

\* UPDATE user_configs SET config_value = ? WHERE user_id = ? AND config_key = ?
UpdateRows(rows, key, value) ==
  LET kept == {r \in BagToSet(rows) : r.config_key # key}
      rest == [r \in kept |-> rows[r]]
  IN  IF RowsOfKey(rows, key) = {}
      THEN rows
      ELSE rest (+) [r \in {ConfigRow(key, value)} |->
                       BagCardinality(rows) - BagCardinality(rest)]

UpsertUpdate(c) ==
  /\ c \in 1..Len(upserts)
  /\ upserts[c].pc = "update"
  /\ LET u == upserts[c]
         changes == BagCardinality(userConfigs)
                    - BagCardinality([r \in {x \in BagToSet(userConfigs) : x.config_key # u.key}
                                        |-> userConfigs[r]])
     IN  /\ userConfigs' = UpdateRows(userConfigs, u.key, u.value)
         /\ upserts' = [upserts EXCEPT ![c].changes = changes,
                                       ![c].pc = IF changes > 0 THEN "returned" ELSE "insert"]
  /\ ConfigFrame

\* The UPDATE rejects; the catch block warns and the INSERT is attempted.
UpsertUpdateFails(c) ==
  /\ c \in 1..Len(upserts)
  /\ upserts[c].pc = "update"
  /\ upserts' = [upserts EXCEPT ![c].pc = "insert", ![c].faulted = TRUE]
  /\ UNCHANGED userConfigs
  /\ ConfigFrame

\* idx_user_configs_user_key: UNIQUE (user_id, config_key).
UniqueViolated(rows, key) == RowsOfKey(rows, key) # {}

\* INSERT INTO user_configs (user_id, config_key, config_value, ...): its
\* rejection is the rejection of upsertUserConfigValue.
UpsertInsert(c) ==
  /\ c \in 1..Len(upserts)
  /\ upserts[c].pc = "insert"
  /\ LET u == upserts[c]
     IN  IF UniqueViolated(userConfigs, u.key)
         THEN /\ upserts' = [upserts EXCEPT ![c].pc = "threw"]
              /\ UNCHANGED userConfigs
         ELSE /\ upserts' = [upserts EXCEPT ![c].pc = "returned"]
              /\ userConfigs' = userConfigs (+) SetToBag({ConfigRow(u.key, u.value)})
  /\ ConfigFrame

NextConfig ==
  \/ UpsertCall
  \/ \E c \in 1..MaxUpserts : UpsertUpdate(c)
  \/ \E c \in 1..MaxUpserts : UpsertUpdateFails(c)
  \/ \E c \in 1..MaxUpserts : UpsertInsert(c)

SpecConfig == InitConfig /\ [][NextConfig]_vars

CallsOn(key) == {c \in 1..Len(upserts) : upserts[c].key = key}

Settled(c) == upserts[c].pc \in {"returned", "threw"}

\* C28 as stated: whatever the interleaving of the calls on one
\* (user_id, config_key), no call rejects, and once they have all completed
\* exactly one row exists for the pair, holding the value of one of the calls.
\* Runs in which a statement fails for a reason of the database are left out.
Original_C28 ==
  \A key \in ConfigKeys :
    (\A c \in CallsOn(key) : ~upserts[c].faulted) =>
      /\ \A c \in CallsOn(key) : upserts[c].pc # "threw"
      /\ (CallsOn(key) # {} /\ \A c \in CallsOn(key) : Settled(c)) =>
           /\ BagCardinality([r \in RowsOfKey(userConfigs, key) |-> userConfigs[r]]) = 1
           /\ \E c \in CallsOn(key) :
                RowsOfKey(userConfigs, key) = {ConfigRow(key, upserts[c].value)}

\* ---------------------------------------------------------------------------
\* splitSqlStatements, character by character. A text is a sequence of
\* characters; sql is kept as the statements and separators it is written
\* from, and the function is applied to their concatenation.
\* ---------------------------------------------------------------------------

MaxSegments == 2

\* a plain statement
SqlSelect ==
  <<"S", "E", "L", "E", "C", "T", " ", "1", ";">>

\* a string holding a semicolon and a doubled quote
SqlQuoted ==
  <<"S", "E", "L", "E", "C", "T", " ", "'", "a", ";", "'", "'", "b", "'",
    ";">>

\* a double-quoted identifier holding a semicolon
SqlIdentifier ==
  <<"S", "E", "L", "E", "C", "T", " ", "\"", "a", ";", "b", "\"", ";">>

\* a line comment holding a semicolon
SqlLineComment ==
  <<"-", "-", " ", "c", ";", "\n", "S", "E", "L", "E", "C", "T", " ", "2",
    ";">>

\* a block comment holding a semicolon
SqlBlockComment ==
  <<"/", "*", " ", "c", ";", " ", "*", "/", " ", "S", "E", "L", "E", "C",
    "T", " ", "3", ";">>

\* BEGIN outside a trigger
SqlBegin ==
  <<"B", "E", "G", "I", "N", ";">>

\* the shape of 0002_drop_recursive_triggers.sql, lines 14-19
SqlTrigger ==
  <<"C", "R", "E", "A", "T", "E", " ", "T", "R", "I", "G", "G", "E", "R",
    " ", "t", "\n", "A", "F", "T", "E", "R", " ", "U", "P", "D", "A", "T",
    "E", " ", "O", "N", " ", "a", "\n", "B", "E", "G", "I", "N", "\n", " ",
    " ", "U", "P", "D", "A", "T", "E", " ", "a", " ", "S", "E", "T", " ",
    "u", " ", "=", " ", "1", " ", "W", "H", "E", "R", "E", " ", "i", "d",
    " ", "=", " ", "N", "E", "W", ".", "i", "d", ";", "\n", "E", "N", "D",
    ";">>

\* lower case, and a column whose name ends in end
SqlTriggerLower ==
  <<"c", "r", "e", "a", "t", "e", " ", "t", "r", "i", "g", "g", "e", "r",
    " ", "t", " ", "b", "e", "g", "i", "n", " ", "u", "p", "d", "a", "t",
    "e", " ", "a", " ", "s", "e", "t", " ", "w", "e", "e", "k", "e", "n",
    "d", " ", "=", " ", "1", ";", " ", "e", "n", "d", ";">>

\* a trigger whose body holds a CASE expression
SqlTriggerCase ==
  <<"C", "R", "E", "A", "T", "E", " ", "T", "R", "I", "G", "G", "E", "R",
    " ", "t", " ", "B", "E", "G", "I", "N", " ", "U", "P", "D", "A", "T",
    "E", " ", "a", " ", "S", "E", "T", " ", "u", " ", "=", " ", "C", "A",
    "S", "E", " ", "W", "H", "E", "N", " ", "v", " ", "T", "H", "E", "N",
    " ", "1", " ", "E", "N", "D", ";", " ", "E", "N", "D", ";">>

\* a string that ends in a backslash
SqlBackslash ==
  <<"S", "E", "L", "E", "C", "T", " ", "'", "c", ":", "\\", "'", ";">>

SqlStatements ==
  {SqlSelect, SqlQuoted, SqlIdentifier, SqlLineComment, SqlBlockComment,
   SqlBegin, SqlTrigger, SqlTriggerLower, SqlTriggerCase, SqlBackslash}

\* What stands between two statements of a file: nothing, blanks, an empty
\* statement.
Separators == {<<>>, <<"\n", "\n">>, <<" ", ";", " ">>}

CreateTriggerWord ==
  <<"C", "R", "E", "A", "T", "E", " ", "T", "R", "I", "G", "G", "E", "R">>

BeginWord ==
  <<"B", "E", "G", "I", "N">>

EndWord ==
  <<"E", "N", "D">>

LowerCase ==
  <<"a", "b", "c", "d", "e", "f", "g", "h", "i", "j", "k", "l", "m", "n",
    "o", "p", "q", "r", "s", "t", "u", "v", "w", "x", "y", "z">>

UpperCase ==
  <<"A", "B", "C", "D", "E", "F", "G", "H", "I", "J", "K", "L", "M", "N",
    "O", "P", "Q", "R", "S", "T", "U", "V", "W", "X", "Y", "Z">>

Segments == [statement : SqlStatements, separator : Separators]

SqlFiles == UNION {[1..n -> Segments] : n \in 0..MaxSegments}

RECURSIVE TextOf(_)
TextOf(segments) ==
  IF segments = <<>> THEN <<>>
  ELSE Head(segments).statement \o Head(segments).separator \o TextOf(Tail(segments))

\* JavaScript's undefined, for input[index] outside the text.
Undefined == ""

WhitespaceChars == {" ", "\n", "\t", "\r"}

\* /[\s;(),]/
BoundaryChars == WhitespaceChars \cup {";", "(", ")", ","}

toUpperCase(c) ==
  IF \E i \in 1..Len(LowerCase) : LowerCase[i] = c
  THEN UpperCase[CHOOSE i \in 1..Len(LowerCase) : LowerCase[i] = c]
  ELSE c

\* input.slice(index).toUpperCase().startsWith(word); index counts from 1.
startsWith(input, index, word) ==
  /\ index + Len(word) - 1 <= Len(input)
  /\ \A k \in 1..Len(word) : toUpperCase(input[index + k - 1]) = word[k]

isBoundary(value, index, length) ==
  LET isBeforeBoundary == index = 1 \/ value[index - 1] \in BoundaryChars
      isAfterBoundary  == index + length > Len(value)
                          \/ value[index + length] \in BoundaryChars
  IN  isBeforeBoundary /\ isAfterBoundary

trimStart(text) ==
  LET kept == {i \in 1..Len(text) : text[i] \notin WhitespaceChars}
  IN  IF kept = {} THEN <<>>
      ELSE SubSeq(text, CHOOSE i \in kept : \A j \in kept : i <= j, Len(text))

trimEnd(text) ==
  LET kept == {i \in 1..Len(text) : text[i] \notin WhitespaceChars}
  IN  IF kept = {} THEN <<>>
      ELSE SubSeq(text, 1, CHOOSE i \in kept : \A j \in kept : j <= i)

trim(text) == trimEnd(trimStart(text))

NewScan ==
  [statements |-> <<>>, current |-> <<>>,
   inSingleQuote |-> FALSE, inDoubleQuote |-> FALSE,
   inLineComment |-> FALSE, inBlockComment |-> FALSE,
   pendingTriggerBody |-> FALSE, triggerBodyDepth |-> 0]

pushStatement(scan) ==
  LET trimmed == trim(scan.current)
      withoutTerminator ==
        IF trimmed # <<>> /\ trimmed[Len(trimmed)] = ";"
        THEN trimEnd(SubSeq(trimmed, 1, Len(trimmed) - 1))
        ELSE trimmed
  IN  [scan EXCEPT !.statements = IF withoutTerminator # <<>>
                                  THEN Append(@, withoutTerminator) ELSE @,
                   !.current = <<>>,
                   !.pendingTriggerBody = FALSE,
                   !.triggerBodyDepth = 0]

\* The CREATE TRIGGER, BEGIN and END tests of one position outside quotes.
TriggerKeywords(input, index, scan) ==
  LET opened == [scan EXCEPT !.pendingTriggerBody =
                   \/ @
                   \/ /\ startsWith(input, index, CreateTriggerWord)
                      /\ isBoundary(input, index, Len(CreateTriggerWord))]
  IN  IF startsWith(input, index, BeginWord) /\ isBoundary(input, index, Len(BeginWord))
      THEN IF opened.pendingTriggerBody \/ opened.triggerBodyDepth > 0
           THEN [opened EXCEPT !.triggerBodyDepth = @ + 1,
                               !.pendingTriggerBody = FALSE]
           ELSE opened
      ELSE IF startsWith(input, index, EndWord) /\ isBoundary(input, index, Len(EndWord))
      THEN IF opened.triggerBodyDepth > 0
           THEN [opened EXCEPT !.triggerBodyDepth = @ - 1,
                               !.pendingTriggerBody =
                                 IF opened.triggerBodyDepth - 1 = 0 THEN FALSE ELSE @]
           ELSE opened
      ELSE opened

\* One turn of the for loop: the scan after input[index], and the next index.
ScanChar(input, index, scan) ==
  LET char     == input[index]
      next     == IF index < Len(input) THEN input[index + 1] ELSE Undefined
      previous == IF index > 1 THEN input[index - 1] ELSE Undefined
      quoted   == scan.inSingleQuote \/ scan.inDoubleQuote
      one      == [scan EXCEPT !.current = Append(@, char)]
      two      == [scan EXCEPT !.current = @ \o <<char, next>>]
  IN  IF scan.inLineComment
      THEN [index |-> index + 1,
            scan |-> [one EXCEPT !.inLineComment = (char # "\n")]]
      ELSE IF scan.inBlockComment
      THEN IF char = "*" /\ next = "/"
           THEN [index |-> index + 2, scan |-> [two EXCEPT !.inBlockComment = FALSE]]
           ELSE [index |-> index + 1, scan |-> one]
      ELSE IF ~quoted /\ char = "-" /\ next = "-"
      THEN [index |-> index + 2, scan |-> [two EXCEPT !.inLineComment = TRUE]]
      ELSE IF ~quoted /\ char = "/" /\ next = "*"
      THEN [index |-> index + 2, scan |-> [two EXCEPT !.inBlockComment = TRUE]]
      ELSE IF char = "'" /\ ~scan.inDoubleQuote
      THEN [index |-> index + 1,
            scan |-> [one EXCEPT !.inSingleQuote = IF previous # "\\" THEN ~@ ELSE @]]
      ELSE IF char = "\"" /\ ~scan.inSingleQuote
      THEN [index |-> index + 1,
            scan |-> [one EXCEPT !.inDoubleQuote = IF previous # "\\" THEN ~@ ELSE @]]
      ELSE LET seen  == IF quoted THEN scan ELSE TriggerKeywords(input, index, scan)
               added == [seen EXCEPT !.current = Append(@, char)]
           IN  IF char = ";" /\ ~quoted /\ seen.triggerBodyDepth = 0
               THEN [index |-> index + 1, scan |-> pushStatement(added)]
               ELSE [index |-> index + 1, scan |-> added]

RECURSIVE ScanFrom(_, _, _)
ScanFrom(input, index, scan) ==
  IF index > Len(input) THEN pushStatement(scan).statements
  ELSE LET turn == ScanChar(input, index, scan)
       IN  ScanFrom(input, turn.index, turn.scan)

\* splitSqlStatements(input) on a text of characters.
SplitSqlText(input) == ScanFrom(input, 1, NewScan)

InitSplit ==
  /\ SchemaReady
  /\ ApiIdle
  /\ TwoIdle /\ IsoIdle /\ FetchIdle /\ ConfigIdle /\ NetIdle
  /\ sql \in SqlFiles
  /\ statements = <<>>
  /\ splitReturned = FALSE

\* statements = splitSqlStatements(source) of the MIGRATIONS builder.
Split ==
  /\ ~splitReturned
  /\ statements' = SplitSqlText(TextOf(sql))
  /\ splitReturned' = TRUE
  /\ UNCHANGED sql
  /\ UNCHANGED migrationVars
  /\ UNCHANGED apiVars
  /\ UNCHANGED <<twoVars, isoVars, fetchVars, configVars, netVars>>

NextSplit == Split

SpecSplit == InitSplit /\ [][NextSplit]_vars

WithoutTerminator(statement) == SubSeq(statement, 1, Len(statement) - 1)

\* The texts that end at a semicolon outside strings, identifiers, comments
\* and trigger bodies: statements i..j of the file, from the start of the
\* i-th to the terminator of the j-th.
WholeStatements(segments) ==
  {TextOf(SubSeq(segments, i, j - 1)) \o WithoutTerminator(segments[j].statement) :
     i \in 1..Len(segments), j \in 1..Len(segments)}

TriggerDefinitions == {SqlTrigger, SqlTriggerLower, SqlTriggerCase}

Occurrences(list, item) == Cardinality({k \in 1..Len(list) : list[k] = item})

\* C29 as stated: the text is cut only at semicolons outside strings,
\* identifiers, comments and trigger bodies; every CREATE TRIGGER definition
\* of the file is returned as one statement; no returned statement is empty or
\* ends in a semicolon.
Original_C29 ==
  splitReturned =>
    /\ \A k \in 1..Len(statements) : statements[k] \in WholeStatements(sql)
    /\ \A i \in 1..Len(sql) :
         sql[i].statement \in TriggerDefinitions =>
           Occurrences(statements, WithoutTerminator(sql[i].statement))
             = Occurrences([n \in 1..Len(sql) |-> sql[n].statement], sql[i].statement)
    /\ \A k \in 1..Len(statements) :
         /\ statements[k] # <<>>
         /\ statements[k][Len(statements[k])] # ";"

\* ---------------------------------------------------------------------------
\* NetworkStatusProvider and ConnectivityBoundary. networkState is the state
\* of the provider, navigatorOnLine what readNavigatorStatus() would return
\* ("null" where navigator.onLine is undefined), dateNow the clock.
\* ---------------------------------------------------------------------------

MaxClock == 4

\* lastChangedAt: null
NullTime == 0

NavigatorStatuses == {"null", "true", "false"}

readNavigatorStatus == navigatorOnLine

buildInitialState(navigatorStatus, now) ==
  [isOnline      |-> navigatorStatus # "false",
   status        |-> IF navigatorStatus = "null" THEN "unknown"
                     ELSE IF navigatorStatus = "true" THEN "online" ELSE "offline",
   reason        |-> "initial",
   lastChangedAt |-> IF navigatorStatus = "null" THEN NullTime ELSE now]

\* Mutant: isOnline is carried over from the previous state.
applyStatus_KeepsIsOnline(previous, online, reason, now) ==
  [isOnline |-> previous.isOnline,
   status |-> IF online THEN "online" ELSE "offline",
   reason |-> reason,
   lastChangedAt |-> now]

applyStatus(previous, online, reason, now) ==
  [isOnline |-> online,
   status |-> IF online THEN "online" ELSE "offline",
   reason |-> reason,
   lastChangedAt |-> now]

markUnknown(previous, reason, now) ==
  [previous EXCEPT !.status = "unknown", !.reason = reason, !.lastChangedAt = now]

\* The provider is mounted: useState(() => buildInitialState()).
InitNetwork ==
  /\ SchemaReady
  /\ ApiIdle
  /\ TwoIdle /\ IsoIdle /\ FetchIdle /\ ConfigIdle /\ SplitIdle
  /\ dateNow = 1
  /\ navigatorOnLine \in NavigatorStatuses
  /\ networkState = buildInitialState(navigatorOnLine, dateNow)

NetworkFrame ==
  /\ UNCHANGED migrationVars
  /\ UNCHANGED apiVars
  /\ UNCHANGED <<twoVars, isoVars, fetchVars, configVars, splitVars>>

\* The connection changes; where navigator.onLine is undefined it stays so.
ConnectionChanges ==
  /\ navigatorOnLine # "null"
  /\ navigatorOnLine' = IF navigatorOnLine = "true" THEN "false" ELSE "true"
  /\ UNCHANGED <<networkState, dateNow>>
  /\ NetworkFrame

TimePasses ==
  /\ dateNow < MaxClock
  /\ dateNow' = dateNow + 1
  /\ UNCHANGED <<networkState, navigatorOnLine>>
  /\ NetworkFrame

\* window 'online' event
handleOnline ==
  /\ networkState' = applyStatus(networkState, TRUE, "navigator", dateNow)
  /\ UNCHANGED <<navigatorOnLine, dateNow>>
  /\ NetworkFrame

\* window 'offline' event
handleOffline ==
  /\ networkState' = applyStatus(networkState, FALSE, "navigator", dateNow)
  /\ UNCHANGED <<navigatorOnLine, dateNow>>
  /\ NetworkFrame

refresh ==
  /\ LET currentStatus == readNavigatorStatus
     IN  networkState' =
           IF currentStatus = "null"
           THEN markUnknown(networkState, "manual", dateNow)
           ELSE applyStatus(networkState, currentStatus = "true", "manual", dateNow)
  /\ UNCHANGED <<navigatorOnLine, dateNow>>
  /\ NetworkFrame

NextNetwork ==
  \/ ConnectionChanges
  \/ TimePasses
  \/ handleOnline
  \/ handleOffline
  \/ refresh

SpecNetwork == InitNetwork /\ [][NextNetwork]_vars

\* The hook read by ConnectivityBoundary: the value of the provider's context.
useNetworkStatus == networkState

ConnectivityBoundary(value) ==
  IF ~value.isOnline /\ value.status # "unknown" THEN "OfflineShell" ELSE "children"

\* C30: in every state of the provider, status 'online' goes with isOnline
\* true and status 'offline' with isOnline false, and ConnectivityBoundary
\* renders OfflineShell exactly when the status is 'offline', the application
\* when it is 'online' or 'unknown'.
Theorem_C30 ==
  /\ networkState.status \in {"online", "offline", "unknown"}
  /\ networkState.status = "online" => networkState.isOnline
  /\ networkState.status = "offline" => ~networkState.isOnline
  /\ ConnectivityBoundary(useNetworkStatus) = "OfflineShell"
       <=> networkState.status = "offline"
  /\ networkState.status \in {"online", "unknown"}
       => ConnectivityBoundary(useNetworkStatus) = "children"

\* After an offline event, refresh() found navigator.onLine undefined: the
\* status is unknown, isOnline is still false, and the application is shown.
Witness_C30 ==
  /\ networkState.status = "unknown"
  /\ networkState.reason = "manual"
  /\ ~networkState.isOnline
  /\ networkState.lastChangedAt > 1
  /\ ConnectivityBoundary(useNetworkStatus) = "children"

====
